---- MODULE Spec2Model ----
(***************************************************************************)
(* Incremental build cache of confluence-to-markdown                       *)
(* (src/src/confluence_to_markdown/builder.py): which pages a run selects, *)
(* how the build state is updated and persisted, and what a crash leaves   *)
(* behind.                                                                 *)
(*                                                                         *)
(* Text is a sequence of one-character strings, so that _slugify and       *)
(* str.lower() are computed character by character.  A path is the tuple   *)
(* of its components.  A digest (sha256) is the tagged value it was taken  *)
(* of: equal inputs give equal digests, distinct inputs distinct ones.     *)
(***************************************************************************)
EXTENDS Integers, Sequences, FiniteSets, TLC

\* ------------------------------------------------------------------ bounds
\* runs started in one behaviour; the clock behind datetime.now()
MaxRuns == 2
\* top-level nodes of a page body
MaxNodes == 4
\* changes made from outside between runs: a setting, a page body, a file
MaxEnvEvents == 1

\* ------------------------------------------------------------------- text
None == "None"

\* the upper-case letters in use and their lower-case forms
UpperToLower ==
  [c \in {"B", "C", "D", "H", "K", "O", "S", "U"} |->
     CASE c = "B" -> "b" [] c = "C" -> "c" [] c = "D" -> "d" [] c = "H" -> "h"
       [] c = "K" -> "k" [] c = "O" -> "o" [] c = "S" -> "s" [] c = "U" -> "u"]

\* str.lower() on one character
LowerChar(c) == IF c \in DOMAIN UpperToLower THEN UpperToLower[c] ELSE c

\* str.lower()
Lower(text) == [i \in 1..Len(text) |-> LowerChar(text[i])]

\* \w of the re module on the characters in use: letters, digits, underscore
WordChars ==
  {"b", "c", "d", "e", "h", "k", "m", "o", "p", "s", "t", "u",
   "B", "C", "D", "H", "K", "O", "S", "U", "_"}

\* \s of the re module on the characters in use
SpaceChars == {" "}

\* re.sub(r"[^\w\s-]", "", text)
DropPunctuation(text) ==
  SelectSeq(text, LAMBDA c : c \in WordChars \cup SpaceChars \cup {"-"})

RECURSIVE CollapseRuns(_, _, _)
\* re.sub(<class>+, "-", text): every maximal run of characters of cls
\* becomes one "-"
CollapseRuns(text, cls, inRun) ==
  IF text = <<>> THEN <<>>
  ELSE IF Head(text) \in cls
       THEN (IF inRun THEN <<>> ELSE <<"-">>) \o CollapseRuns(Tail(text), cls, TRUE)
       ELSE <<Head(text)>> \o CollapseRuns(Tail(text), cls, FALSE)

RECURSIVE LStrip(_, _)
LStrip(text, c) ==
  IF text # <<>> /\ Head(text) = c THEN LStrip(Tail(text), c) ELSE text

RECURSIVE RStrip(_, _)
RStrip(text, c) ==
  IF text # <<>> /\ text[Len(text)] = c
  THEN RStrip(SubSeq(text, 1, Len(text) - 1), c) ELSE text

\* str.strip("-")
Strip(text, c) == RStrip(LStrip(text, c), c)

\* ConversionBuilder._slugify
slugify(text) ==
  Strip(CollapseRuns(CollapseRuns(DropPunctuation(Lower(text)),
                                  SpaceChars \cup {"_"}, FALSE),
                     {"-"}, FALSE), "-")

\* hashlib.sha256(...).hexdigest()
Sha256(x) == <<"sha256", x>>

\* hashlib.sha256(...).hexdigest()[:16]
Sha256Prefix16(x) == <<"sha256[:16]", x>>

\* the empty string
EmptyText == <<>>

\* ----------------------------------------------------------------- globs
\* A heading path and a pattern are sequences of tokens: a heading text, the
\* separator "/", and in a pattern the wildcard "*".
RECURSIVE Join(_, _)
\* sep.join(parts)
Join(parts, sep) ==
  IF parts = <<>> THEN <<>>
  ELSE IF Len(parts) = 1 THEN <<parts[1]>>
  ELSE <<parts[1], sep>> \o Join(Tail(parts), sep)

RECURSIVE fnmatch(_, _)
\* fnmatch.fnmatch(name, pattern): "*" matches any run of tokens, the
\* separator among them; anything else matches itself
fnmatch(name, pattern) ==
  IF pattern = <<>> THEN name = <<>>
  ELSE IF Head(pattern) = "*"
       THEN \/ fnmatch(name, Tail(pattern))
            \/ name # <<>> /\ fnmatch(Tail(name), pattern)
       ELSE /\ name # <<>>
            /\ Head(name) = Head(pattern)
            /\ fnmatch(Tail(name), Tail(pattern))

\* the exclusion patterns in use
ChangeLogAnywhere == <<"*", "*", "/", "Change Log">>
IntroOnly == <<"Intro">>
Anything == <<"*">>

\* --------------------------------------------------------------- settings
\* config.Settings, the fields the builder and the converter read
DefaultSettings ==
  [exports_dir            |-> "exports",
   exclude_pages          |-> <<>>,
   exclude_sections       |-> <<>>,
   include_frontmatter    |-> TRUE,
   frontmatter_fields     |-> <<"title", "created_date", "modified_date", "labels">>,
   unknown_macro_handling |-> "comment",
   internal_link_style    |-> "relative",
   missing_page_links     |-> "comment",
   filename_style         |-> "slugify",
   max_heading_level      |-> 6]

\* the other value each setting takes in the model
OtherSettings ==
  [exports_dir            |-> "out",
   exclude_pages          |-> <<"Test/*">>,
   exclude_sections       |-> <<ChangeLogAnywhere>>,
   include_frontmatter    |-> FALSE,
   frontmatter_fields     |-> <<"title">>,
   unknown_macro_handling |-> "strip",
   internal_link_style    |-> "title_only",
   missing_page_links     |-> "strip",
   filename_style         |-> "preserve",
   max_heading_level      |-> 3]

SettingNames == DOMAIN DefaultSettings

\* the settings that change in the specification of the whole builder: one
\* that _hash_settings reads and one that it does not
ChangingSettings == {"filename_style", "exports_dir"}

\* the settings the renderer and the output path read: a change of any of
\* them changes what a conversion emits
RenderSettings ==
  {"exclude_sections", "max_heading_level", "internal_link_style",
   "missing_page_links", "unknown_macro_handling", "frontmatter_fields",
   "include_frontmatter", "filename_style"}

hash_settings_exclude_only(s) ==
  Sha256Prefix16([exclude_pages |-> s.exclude_pages])

\* ConversionBuilder._hash_settings: the digest of the `relevant` dict
hash_settings(s) ==
  Sha256Prefix16([exclude_pages |-> s.exclude_pages,
                  content       |-> [include_frontmatter |-> s.include_frontmatter],
                  output        |-> [filename_style |-> s.filename_style]])

\* the settings that _hash_settings reads
FingerprintedSettings == {"exclude_pages", "include_frontmatter", "filename_style"}

\* ----------------------------------------------------------------- export
\* the exports on disk: (directory, file name)
ExportA == <<"imports", "docs.zip">>
ExportB == <<"imports", "kb.zip">>
ExportPaths == {ExportA, ExportB}

\* Path.name
Name(path) == path[Len(path)]

Home   == <<"H", "o", "m", "e">>
HomeX  == <<"h", "o", "m", "e", "!">>
SetUp  == <<"S", "e", "t", " ", "U", "p">>
\* a title with the path separator in it
SetSlashUp == <<"S", "e", "t", "/", "U", "p">>

\* the page titles in use
Titles == {Home, HomeX, SetUp, SetSlashUp}

\* _slugify of every title, computed once
Slugs == [title \in Titles |-> slugify(title)]

BodyA == "<p>a</p>"
BodyB == "<p>b</p>"
Bodies == {BodyA, BodyB}

\* a page dict of ExportParser._parse_pages with its body resolved
PageData(id, title, parent_id, position) ==
  [id |-> id, title |-> title, parent_id |-> parent_id,
   position |-> position, body |-> BodyA]

\* the page lists of ExportA the model starts from: two roots whose
\* positions reverse the document order, and a parent and its child whose
\* titles have the same slug
SourcesA ==
  { <<PageData("1", Home, None, 1), PageData("2", SetUp, None, 0)>>,
    <<PageData("1", Home, None, 0), PageData("2", HomeX, "1", 0)>> }

SourcesB == { <<PageData("1", Home, None, 0)>> }

\* Space.key of each export
SpaceKey(path) == IF path = ExportA THEN <<"D", "O", "C", "S">> ELSE <<"K", "B">>

\* a digest of the title and the body
content_hash_with_title(page) == Sha256(<<page.title, page.body_content>>)

\* PageNode.content_hash
content_hash(page) == Sha256(page.body_content)

\* the ids of a page list, in list order
Ids(pages) == [i \in 1..Len(pages) |-> pages[i].id]

\* ExportParser._build_page_tree: the id index, the roots and every page's
\* children, the last two in the order the pages were listed
build_page_tree(pages) ==
  LET ids == {pages[i].id : i \in 1..Len(pages)}
      last(id) == CHOOSE i \in 1..Len(pages) :
                    /\ pages[i].id = id
                    /\ \A j \in (i + 1)..Len(pages) : pages[j].id # id
      is_child(i) == pages[i].parent_id # None /\ pages[i].parent_id \in ids
      \* pages_by_id keeps one entry per id, at the place of its first
      \* occurrence and with the data of its last one
      first(k) == \A j \in 1..(k - 1) : pages[j].id # pages[k].id
      keys == [k \in 1..Len(pages) |-> k]
      firsts == SelectSeq(keys, first)
      by_id == [id \in ids |->
                 [id |-> id, title |-> pages[last(id)].title,
                  body_content |-> pages[last(id)].body,
                  parent |-> IF is_child(last(id))
                             THEN pages[last(id)].parent_id ELSE None,
                  position |-> pages[last(id)].position]]
      ordered == [k \in 1..Len(firsts) |-> pages[firsts[k]].id]
  IN [pages_by_id |-> by_id,
      root_pages  |-> SelectSeq(ordered, LAMBDA id : by_id[id].parent = None),
      children    |-> [id \in ids |->
                         SelectSeq(ordered, LAMBDA c : by_id[c].parent = id)]]

\* ExportParser.parse: the ConfluenceExport of the export at path
parse(path, pages) ==
  [path |-> path, space |-> [key |-> SpaceKey(path)]] @@ build_page_tree(pages)

RECURSIVE InsertByPosition(_, _, _)
InsertByPosition(sorted, id, by_id) ==
  IF sorted = <<>> THEN <<id>>
  ELSE IF by_id[Head(sorted)].position <= by_id[id].position
       THEN <<Head(sorted)>> \o InsertByPosition(Tail(sorted), id, by_id)
       ELSE <<id>> \o sorted

RECURSIVE SortedByPosition(_, _)
\* sorted(nodes, key=lambda p: p.position): stable
SortedByPosition(ids, by_id) ==
  IF ids = <<>> THEN <<>>
  ELSE InsertByPosition(SortedByPosition(SubSeq(ids, 1, Len(ids) - 1), by_id),
                        ids[Len(ids)], by_id)

RECURSIVE walk_nodes(_, _)
\* walk_node of ConfluenceExport.walk_pages, over a list of siblings
walk_nodes(export, ids) ==
  IF ids = <<>> THEN <<>>
  ELSE <<Head(ids)>>
       \o walk_nodes(export, SortedByPosition(export.children[Head(ids)],
                                              export.pages_by_id))
       \o walk_nodes(export, Tail(ids))

\* the walk with the roots taken as they were listed
walk_pages_as_listed(export) == walk_nodes(export, export.root_pages)

\* ConfluenceExport.walk_pages: the page ids, depth first
walk_pages(export) ==
  walk_nodes(export, SortedByPosition(export.root_pages, export.pages_by_id))

\* ConfluenceExport.all_pages
all_pages(export) == walk_pages(export)

\* the elements of a sequence
Range(seq) == {seq[i] : i \in 1..Len(seq)}

\* ------------------------------------------------------------ build state
\* BuildState()
EmptyState ==
  [version |-> "1.0", settings_hash |-> EmptyText, exports |-> <<>>]

\* the state file: absent, one that read_text cannot read, holding text that
\* is no JSON document, or holding the JSON document data
Missing == [kind |-> "missing"]
Unreadable == [kind |-> "unreadable"]
Truncated == [kind |-> "text", text |-> EmptyText]
Json(data) == [kind |-> "json", data |-> data]

\* a JSON value that is no object (a list, a number, null), where a dict
\* stands for an object
NotAnObject == [not_an_object |-> TRUE]

save_data_without_timestamps(st) ==
  [version       |-> st.version,
   settings_hash |-> st.settings_hash,
   exports       |->
     [export_name \in DOMAIN st.exports |->
        [source_path  |-> st.exports[export_name].source_path,
         source_mtime |-> st.exports[export_name].source_mtime,
         source_hash  |-> st.exports[export_name].source_hash,
         pages        |->
           [page_id \in DOMAIN st.exports[export_name].pages |->
              [title        |-> st.exports[export_name].pages[page_id].title,
               output_path  |-> st.exports[export_name].pages[page_id].output_path,
               content_hash |-> st.exports[export_name].pages[page_id].content_hash]]]]]

\* the dict that ConversionBuilder._save_state builds and dumps
save_data(st) ==
  [version       |-> st.version,
   settings_hash |-> st.settings_hash,
   exports       |->
     [export_name \in DOMAIN st.exports |->
        [source_path  |-> st.exports[export_name].source_path,
         source_mtime |-> st.exports[export_name].source_mtime,
         source_hash  |-> st.exports[export_name].source_hash,
         pages        |->
           [page_id \in DOMAIN st.exports[export_name].pages |->
              [title        |-> st.exports[export_name].pages[page_id].title,
               output_path  |-> st.exports[export_name].pages[page_id].output_path,
               content_hash |-> st.exports[export_name].pages[page_id].content_hash,
               converted_at |-> st.exports[export_name].pages[page_id].converted_at]]]]]

\* dict.get(key, default)
Get(dict, key, default) == IF key \in DOMAIN dict THEN dict[key] ELSE default

\* ConversionBuilder._parse_state
parse_state(data) ==
  [version       |-> Get(data, "version", "1.0"),
   settings_hash |-> Get(data, "settings_hash", EmptyText),
   exports       |->
     LET exports_data == Get(data, "exports", <<>>) IN
     [export_name \in DOMAIN exports_data |->
        LET export_data == exports_data[export_name]
            pages_data == Get(export_data, "pages", <<>>)
        IN [source_path  |-> Get(export_data, "source_path", EmptyText),
            source_mtime |-> Get(export_data, "source_mtime", EmptyText),
            source_hash  |-> Get(export_data, "source_hash", EmptyText),
            pages        |->
              [page_id \in DOMAIN pages_data |->
                 [title        |-> Get(pages_data[page_id], "title", EmptyText),
                  output_path  |-> Get(pages_data[page_id], "output_path", EmptyText),
                  content_hash |-> Get(pages_data[page_id], "content_hash", EmptyText),
                  converted_at |-> Get(pages_data[page_id], "converted_at", EmptyText)]]]]]

\* the exception _parse_state raises on data, or None: .get and .items are
\* called on the document, on data["exports"], on every export's data, on
\* its "pages" and on every page's data, and a value that is no dict has
\* neither
parse_state_error(data) ==
  LET exports_data == Get(data, "exports", <<>>)
      no_dict(export_data) ==
        \/ export_data = NotAnObject
        \/ Get(export_data, "pages", <<>>) = NotAnObject
        \/ \E page_id \in DOMAIN Get(export_data, "pages", <<>>) :
             export_data["pages"][page_id] = NotAnObject
  IN IF data = NotAnObject THEN "AttributeError"
     ELSE IF exports_data = NotAnObject THEN "AttributeError"
     ELSE IF \E export_name \in DOMAIN exports_data :
                no_dict(exports_data[export_name])
          THEN "AttributeError"
     ELSE None

\* the exception the try block of _load_state raises on file, or None
load_error(file) ==
  CASE file.kind = "unreadable" -> "PermissionError"
    [] file.kind = "text"       -> "JSONDecodeError"
    [] file.kind = "json"       -> parse_state_error(file.data)
    [] OTHER                    -> None

handles_decode_errors_only(error) == error = "JSONDecodeError"

\* `except Exception` of _load_state: the exceptions it catches
handles(error) ==
  error \in {"PermissionError", "JSONDecodeError", "AttributeError"}

\* ConversionBuilder._load_state: what it returns, or the exception that
\* leaves it
try_load_state(file) ==
  IF file.kind = "missing" THEN [raised |-> None, state |-> EmptyState]
  ELSE LET error == load_error(file) IN
       IF error = None
       THEN [raised |-> None, state |-> parse_state(file.data)]
       ELSE IF handles(error) THEN [raised |-> None, state |-> EmptyState]
       ELSE [raised |-> error, state |-> EmptyState]

\* the BuildState that _load_state returns
load_state(file) == try_load_state(file).state

\* datetime.now().isoformat() at clock tick t
IsoFormat(t) == <<"T", t>>

\* -------------------------------------------------------------- selection
\* ConversionBuilder._get_output_path
get_output_path(s, page, export) ==
  LET filename == IF s.filename_style = "slugify"
                  THEN Slugs[page.title] ELSE page.title
  IN <<s.exports_dir, Lower(export.space.key), filename \o <<".", "m", "d">>>>

should_convert_ignoring_force(st, export, force, fs, id) ==
  LET export_name == Name(export.path)
      page == export.pages_by_id[id]
  IN IF export_name \notin DOMAIN st.exports THEN TRUE
     ELSE LET export_state == st.exports[export_name] IN
          IF id \notin DOMAIN export_state.pages THEN TRUE
          ELSE LET page_state == export_state.pages[id] IN
               IF page_state.output_path \notin DOMAIN fs THEN TRUE
               ELSE IF content_hash(page) # page_state.content_hash THEN TRUE
               ELSE FALSE

should_convert_without_exists(st, export, force, fs, id) ==
  LET export_name == Name(export.path)
      page == export.pages_by_id[id]
  IN IF force THEN TRUE
     ELSE IF export_name \notin DOMAIN st.exports THEN TRUE
     ELSE LET export_state == st.exports[export_name] IN
          IF id \notin DOMAIN export_state.pages THEN TRUE
          ELSE LET page_state == export_state.pages[id] IN
               IF content_hash(page) # page_state.content_hash THEN TRUE
               ELSE FALSE

\* the per-page test of ConversionBuilder._determine_pages_to_convert
should_convert(st, export, force, fs, id) ==
  LET export_name == Name(export.path)
      page == export.pages_by_id[id]
  IN IF force THEN TRUE
     ELSE IF export_name \notin DOMAIN st.exports THEN TRUE
     ELSE LET export_state == st.exports[export_name] IN
          IF id \notin DOMAIN export_state.pages THEN TRUE
          ELSE LET page_state == export_state.pages[id] IN
               IF page_state.output_path \notin DOMAIN fs THEN TRUE
               ELSE IF content_hash(page) # page_state.content_hash THEN TRUE
               ELSE FALSE

\* ConversionBuilder._determine_pages_to_convert: the ids of the selected
\* pages, in traversal order
determine_pages_to_convert(st, s, export, force, fs) ==
  IF st.settings_hash # hash_settings(s)
  THEN all_pages(export)
  ELSE SelectSeq(walk_pages(export),
                 LAMBDA id : should_convert(st, export, force, fs, id))

\* ----------------------------------------------------------------- update
\* the entry that _update_state creates for an export it has none for
NewExportState(export, now) ==
  [source_path  |-> export.path,
   source_mtime |-> IsoFormat(now),
   source_hash  |-> EmptyText,
   pages        |-> <<>>]

\* the PageState records that the loop of _update_state writes: one per page
\* with a report that is not failed, from the last such report
NewPageStates(export, reports, now) ==
  LET recorded == {k \in 1..Len(reports) :
                     /\ reports[k].status # "failed"
                     /\ reports[k].page_id \in DOMAIN export.pages_by_id}
      last(id) == CHOOSE k \in recorded :
                    /\ reports[k].page_id = id
                    /\ \A j \in recorded : reports[j].page_id = id => j <= k
  IN [id \in {reports[k].page_id : k \in recorded} |->
        [title        |-> export.pages_by_id[id].title,
         output_path  |-> reports[last(id)].output_file,
         content_hash |-> content_hash(export.pages_by_id[id]),
         converted_at |-> IsoFormat(now)]]

\* state.exports with the entry of export_name created when it is missing
WithExportState(st, export, now) ==
  IF Name(export.path) \in DOMAIN st.exports THEN st.exports
  ELSE st.exports @@ (Name(export.path) :> NewExportState(export, now))

update_state_keeping_settings_hash(st, s, export, reports, now) ==
  [version       |-> st.version,
   settings_hash |-> st.settings_hash,
   exports       |->
     [WithExportState(st, export, now) EXCEPT
        ![Name(export.path)].pages = NewPageStates(export, reports, now) @@ @]]

update_state_keeping_old_records(st, s, export, reports, now) ==
  [version       |-> st.version,
   settings_hash |-> hash_settings(s),
   exports       |->
     [WithExportState(st, export, now) EXCEPT
        ![Name(export.path)].pages = @ @@ NewPageStates(export, reports, now)]]

\* an update that gives every record of the export the time of this run
update_state_stamping_all(st, s, export, reports, now) ==
  [version       |-> st.version,
   settings_hash |-> hash_settings(s),
   exports       |->
     [WithExportState(st, export, now) EXCEPT
        ![Name(export.path)].pages =
          [id \in DOMAIN (NewPageStates(export, reports, now) @@ @) |->
             [(NewPageStates(export, reports, now) @@ @)[id] EXCEPT
                !.converted_at = IsoFormat(now)]]]]

\* an update that keeps only the records of the pages of this run
update_state_replacing_pages(st, s, export, reports, now) ==
  [version       |-> st.version,
   settings_hash |-> hash_settings(s),
   exports       |->
     [WithExportState(st, export, now) EXCEPT
        ![Name(export.path)].pages = NewPageStates(export, reports, now)]]

\* ConversionBuilder._update_state
update_state(st, s, export, reports, now) ==
  [version       |-> st.version,
   settings_hash |-> hash_settings(s),
   exports       |->
     [WithExportState(st, export, now) EXCEPT
        ![Name(export.path)].pages = NewPageStates(export, reports, now) @@ @]]

\* ------------------------------------------------------------------ state
VARIABLES
  settings,   \* the Settings object the builder and the converter share
  source,     \* per export path, the page list its entities.xml holds
  files,      \* the output files that exist, with their content
  stateFile,  \* the content of .confluence-build-state.json
  state,      \* ConversionBuilder.state of the live builder
  pc,         \* where the process is: "none" (no builder), "idle",
              \* "convert" (in the page loop), "write" (state file opened),
              \* "raised" (the constructor let an exception out)
  run,        \* the locals of convert_export
  result,     \* the BuildResult of the run that has just returned
  clock,      \* runs started, the time datetime.now() reads
  env,        \* changes made from outside so far
  hist,       \* history: snapshots taken at the start and end of runs
  conv        \* the locals of the converter call in progress

vars == <<settings, source, files, stateFile, state, pc, run, result, clock,
          env, hist, conv>>

NoRun ==
  [active |-> FALSE, export |-> <<>>, force |-> FALSE,
   pages_to_convert |-> <<>>, reports |-> <<>>, i |-> 1, now |-> 0,
   pages_converted |-> 0, pages_failed |-> 0]

NoResult ==
  [valid |-> FALSE, pages_converted |-> 0, pages_skipped |-> 0,
   pages_failed |-> 0, page_reports |-> <<>>]

\* no run has ended, or something was changed from outside since it did
NoLast ==
  [how |-> "none", path |-> <<>>, force |-> FALSE, selected |-> <<>>,
   failed |-> {}, written |-> {}, durable |-> {}, settings |-> DefaultSettings,
   same_builder |-> FALSE, records |-> <<>>, changed |-> {}]

NoStart == [stateFile |-> Missing, files |-> <<>>, state |-> EmptyState]

\* the converter is not running
NoConv == [kind |-> "none"]

\* what converter.convert returns for a page under settings s, as far as the
\* builder is concerned: the text it writes
Markdown(s, page) ==
  [markdown_of |-> [title |-> page.title, body |-> page.body_content,
                    settings |-> [n \in RenderSettings \ {"filename_style"}
                                    |-> s[n]]]]

\* the reports of a run of export under s in which every page is converted
\* without a warning
CleanReports(s, export) ==
  [k \in 1..Len(all_pages(export)) |->
     LET page == export.pages_by_id[all_pages(export)[k]] IN
     [page_id |-> page.id, page_title |-> page.title,
      output_file |-> get_output_path(s, page, export),
      status |-> "success", warnings |-> <<>>, errors |-> <<>>]]

\* the build state and the output files after each export of the sequence
\* paths has been converted once at time 0, under the default settings and
\* without a failure
RECURSIVE BuiltState(_, _)
BuiltState(src, paths) ==
  IF paths = <<>> THEN EmptyState
  ELSE LET export == parse(paths[Len(paths)], src[paths[Len(paths)]]) IN
       update_state(BuiltState(src, SubSeq(paths, 1, Len(paths) - 1)),
                    DefaultSettings, export,
                    CleanReports(DefaultSettings, export), 0)

RECURSIVE BuiltFiles(_, _)
BuiltFiles(src, paths) ==
  IF paths = <<>> THEN <<>>
  ELSE LET export == parse(paths[Len(paths)], src[paths[Len(paths)]])
           pages == {export.pages_by_id[id] : id \in Range(all_pages(export))}
           rest == BuiltFiles(src, SubSeq(paths, 1, Len(paths) - 1))
       IN [q \in {get_output_path(DefaultSettings, page, export) : page \in pages}
             |-> Markdown(DefaultSettings,
                          CHOOSE page \in pages :
                            /\ get_output_path(DefaultSettings, page, export) = q
                            /\ \A other \in pages :
                                 get_output_path(DefaultSettings, other, export) = q
                                 => \E i, j \in 1..Len(all_pages(export)) :
                                      /\ all_pages(export)[i] = other.id
                                      /\ all_pages(export)[j] = page.id
                                      /\ i <= j)]
          @@ rest

\* what has been built before the behaviour starts: nothing, or both exports
BuiltBefore == {<<>>, <<ExportA, ExportB>>}

\* a builder has just been constructed in a directory where earlier runs
\* may have left their state file and their output
Init ==
  /\ settings = DefaultSettings
  /\ source \in [ExportPaths -> SourcesA \cup SourcesB]
  /\ source[ExportA] \in SourcesA
  /\ source[ExportB] \in SourcesB
  /\ \E built \in BuiltBefore :
       /\ files = BuiltFiles(source, built)
       /\ stateFile = IF built = <<>> THEN Missing
                      ELSE Json(save_data(BuiltState(source, built)))
  /\ state = load_state(stateFile)
  /\ pc = "idle"
  /\ run = NoRun
  /\ result = NoResult
  /\ clock = 0
  /\ env = 0
  /\ hist = [start |-> NoStart, after |-> Missing, last |-> NoLast,
             prev |-> NoLast, outcomes |-> <<>>]
  /\ conv = NoConv

\* what a write that raised half way leaves in the file
PartialText == [partial |-> TRUE]

\* the outcomes of one _convert_page: converter.convert returns without or
\* with warnings and the file is written; converter.convert, mkdir or open
\* raises; write_text raises after it opened the file
Outcomes == {"success", "partial", "raises", "raises_in_write"}

\* the conversion raised: the except clause of _convert_page ran
Raises(outcome) == outcome \in {"raises", "raises_in_write"}

\* ConversionResult.warnings of a conversion that returned
WarningsOf(outcome) == IF outcome = "partial" THEN <<"warning">> ELSE <<>>

convert_page_ignoring_warnings(s, page, export, outcome) ==
  [page_id |-> page.id, page_title |-> page.title,
   output_file |-> get_output_path(s, page, export),
   status |-> IF Raises(outcome) THEN "failed" ELSE "success",
   warnings |-> IF Raises(outcome) THEN <<>> ELSE WarningsOf(outcome),
   errors |-> IF Raises(outcome) THEN <<"error">> ELSE <<>>]

\* ConversionBuilder._convert_page: the report it returns
convert_page(s, page, export, outcome) ==
  LET output_path == get_output_path(s, page, export) IN
  IF Raises(outcome)
  THEN [page_id |-> page.id, page_title |-> page.title,
        output_file |-> output_path, status |-> "failed",
        warnings |-> <<>>, errors |-> <<"error">>]
  ELSE [page_id |-> page.id, page_title |-> page.title,
        output_file |-> output_path,
        status |-> IF WarningsOf(outcome) # <<>> THEN "partial" ELSE "success",
        warnings |-> WarningsOf(outcome), errors |-> <<>>]

\* st holds a record of page id in the entry of the export at path
HasRecord(st, path, id) ==
  /\ Name(path) \in DOMAIN st.exports
  /\ id \in DOMAIN st.exports[Name(path)].pages

\* that record
RecordOf(st, path, id) == st.exports[Name(path)].pages[id]

\* ---------------------------------------------------------------- actions
\* ConversionBuilder.__init__: a new process, or a new builder in this one
NewBuilder ==
  /\ pc \in {"none", "idle"}
  /\ state' = load_state(stateFile)
  /\ pc' = IF try_load_state(stateFile).raised = None THEN "idle" ELSE "raised"
  /\ result' = NoResult
  /\ hist' = [hist EXCEPT !.last.same_builder = FALSE, !.outcomes = <<>>]
  /\ UNCHANGED <<settings, source, files, stateFile, run, clock, env, conv>>

\* convert_export up to the page loop: parse the export and select the pages
StartRun(path, force) ==
  /\ pc = "idle"
  /\ clock < MaxRuns
  /\ LET export == parse(path, source[path]) IN
     run' = [active |-> TRUE, export |-> export, force |-> force,
             pages_to_convert |->
               determine_pages_to_convert(state, settings, export, force, files),
             reports |-> <<>>, i |-> 1, now |-> clock + 1,
             pages_converted |-> 0, pages_failed |-> 0]
  /\ clock' = clock + 1
  /\ pc' = "convert"
  /\ result' = NoResult
  /\ hist' = [hist EXCEPT
                !.start = [stateFile |-> stateFile, files |-> files,
                           state |-> state],
                !.after = stateFile,
                !.prev = hist.last,
                !.last = NoLast,
                !.outcomes = <<>>]
  /\ UNCHANGED <<settings, source, files, stateFile, state, env, conv>>

\* one iteration of the page loop: _convert_page and the counters
ConvertPageBody(outcome) ==
  /\ pc = "convert"
  /\ run.i <= Len(run.pages_to_convert)
  /\ LET page == run.export.pages_by_id[run.pages_to_convert[run.i]]
         report == convert_page(settings, page, run.export, outcome)
     IN /\ files' = CASE ~Raises(outcome) ->
                           (report.output_file :> Markdown(settings, page)) @@ files
                      [] outcome = "raises_in_write" ->
                           (report.output_file :> PartialText) @@ files
                      [] OTHER -> files
        /\ run' = [run EXCEPT
                     !.reports = Append(@, report),
                     !.i = @ + 1,
                     !.pages_failed =
                        IF report.status = "failed" THEN @ + 1 ELSE @,
                     !.pages_converted =
                        IF report.status = "failed" THEN @ ELSE @ + 1]
  /\ hist' = [hist EXCEPT !.outcomes = Append(@, outcome)]
  /\ UNCHANGED <<settings, source, state, pc, result, clock, env, conv>>

\* the loop ends at the first page that fails
ConvertPageStoppingAtFailure(outcome) ==
  /\ \/ ~Raises(outcome) /\ ConvertPageBody(outcome)
     \/ /\ pc = "convert"
        /\ run.i <= Len(run.pages_to_convert)
        /\ Raises(outcome)
        /\ LET page == run.export.pages_by_id[run.pages_to_convert[run.i]] IN
           run' = [run EXCEPT
                     !.reports = Append(@, convert_page(settings, page,
                                                        run.export, outcome)),
                     !.i = Len(run.pages_to_convert) + 1,
                     !.pages_failed = @ + 1]
        /\ hist' = [hist EXCEPT !.outcomes = Append(@, outcome)]
        /\ UNCHANGED <<settings, source, files, state, pc, result, clock, env,
                       conv>>
  /\ UNCHANGED stateFile

ConvertPageAndSave(outcome) ==
  /\ ConvertPageBody(outcome)
  /\ stateFile' = Json(save_data(state))

\* the page loop touches the output files and the locals only
ConvertPage(outcome) ==
  /\ ConvertPageBody(outcome)
  /\ UNCHANGED stateFile

\* after the loop: _update_state, then _save_state up to the point where
\* write_text has opened, and so emptied, the state file
UpdateAndOpen ==
  /\ pc = "convert"
  /\ run.i > Len(run.pages_to_convert)
  /\ state' = update_state(state, settings, run.export, run.reports, run.now)
  /\ stateFile' = Truncated
  /\ pc' = "write"
  /\ hist' = [hist EXCEPT !.after = Json(save_data(state'))]
  /\ UNCHANGED <<settings, source, files, run, result, clock, env, conv>>

\* the ids of the reports with a status in statuses
Reported(reports, statuses) ==
  {reports[k].page_id : k \in {j \in 1..Len(reports) :
                                 reports[j].status \in statuses}}

\* what a run leaves for the history when it ends
LastOf(how) ==
  [how |-> how, path |-> run.export.path, force |-> run.force,
   selected |-> run.pages_to_convert,
   failed |-> Reported(run.reports, {"failed"}),
   written |-> Reported(run.reports, {"success", "partial"}),
   durable |-> {id \in Range(run.pages_to_convert) :
                  \/ hist.start.state.settings_hash # hash_settings(settings)
                  \/ ~HasRecord(hist.start.state, run.export.path, id)
                  \/ RecordOf(hist.start.state, run.export.path, id).content_hash
                       # content_hash(run.export.pages_by_id[id])},
   settings |-> settings, same_builder |-> TRUE,
   records |-> [id \in {p \in DOMAIN run.export.pages_by_id :
                           HasRecord(hist.start.state, run.export.path, p)} |->
                  RecordOf(hist.start.state, run.export.path, id)],
   changed |-> {}]

\* the rest of _save_state and of convert_export: the document is written
\* and the BuildResult returned
WriteAndReturn ==
  /\ pc = "write"
  /\ stateFile' = Json(save_data(state))
  /\ result' = [valid |-> TRUE,
                pages_converted |-> run.pages_converted,
                pages_skipped |-> Cardinality(DOMAIN run.export.pages_by_id)
                                  - Len(run.pages_to_convert),
                pages_failed |-> run.pages_failed,
                page_reports |-> run.reports]
  /\ pc' = "idle"
  /\ run' = NoRun
  /\ hist' = [hist EXCEPT !.last = LastOf("completed"),
                           !.start = NoStart, !.after = Missing]
  /\ UNCHANGED <<settings, source, files, state, clock, env, conv>>

\* the process dies in the middle of a run: its memory is gone, the files
\* stay as they are; when it dies inside the write_text of a page, that
\* page's output file is left with part of its text
Crash(in_write_text) ==
  /\ pc \in {"convert", "write"}
  /\ in_write_text => pc = "convert" /\ run.i <= Len(run.pages_to_convert)
  /\ files' = IF in_write_text
              THEN LET page == run.export.pages_by_id[run.pages_to_convert[run.i]]
                   IN (get_output_path(settings, page, run.export) :> PartialText)
                      @@ files
              ELSE files
  /\ pc' = "none"
  /\ state' = EmptyState
  /\ run' = NoRun
  /\ hist' = [hist EXCEPT !.last = LastOf(IF pc = "write" THEN "crashed_in_save"
                                          ELSE "crashed"),
                           !.outcomes = <<>>]
  /\ UNCHANGED <<settings, source, stateFile, result, clock, env, conv>>

\* between runs, somebody changes one setting
ChangeSetting(name) ==
  /\ pc = "idle"
  /\ env < MaxEnvEvents
  /\ settings' = [settings EXCEPT ![name] = IF @ = DefaultSettings[name]
                                            THEN OtherSettings[name]
                                            ELSE DefaultSettings[name]]
  /\ env' = env + 1
  /\ result' = NoResult
  /\ hist' = [hist EXCEPT !.last.changed = @ \cup {"settings"}, !.outcomes = <<>>]
  /\ UNCHANGED <<source, files, stateFile, state, pc, run, clock, conv>>

\* between runs, the body of a page of an export changes
EditPage(path, k, body) ==
  /\ pc = "idle"
  /\ env < MaxEnvEvents
  /\ k \in 1..Len(source[path])
  /\ source[path][k].body # body
  /\ source' = [source EXCEPT ![path][k].body = body]
  /\ env' = env + 1
  /\ result' = NoResult
  /\ hist' = [hist EXCEPT !.last.changed = @ \cup {"source"}, !.outcomes = <<>>]
  /\ UNCHANGED <<settings, files, stateFile, state, pc, run, clock, conv>>

\* between runs, somebody removes an output file
RemoveOutput(path) ==
  /\ pc = "idle"
  /\ env < MaxEnvEvents
  /\ path \in DOMAIN files
  /\ files' = [q \in DOMAIN files \ {path} |-> files[q]]
  /\ env' = env + 1
  /\ result' = NoResult
  /\ hist' = [hist EXCEPT !.last.changed = @ \cup {"files"}, !.outcomes = <<>>]
  /\ UNCHANGED <<settings, source, stateFile, state, pc, run, clock, conv>>

Next ==
  \/ NewBuilder
  \/ \E path \in ExportPaths, force \in BOOLEAN : StartRun(path, force)
  \/ \E outcome \in Outcomes : ConvertPage(outcome)
  \/ UpdateAndOpen
  \/ WriteAndReturn
  \/ \E in_write_text \in BOOLEAN : Crash(in_write_text)
  \/ \E name \in ChangingSettings : ChangeSetting(name)
  \/ \E path \in ExportPaths, k \in 1..2, body \in Bodies : EditPage(path, k, body)
  \/ \E path \in DOMAIN files : RemoveOutput(path)

\* the builder with its environment: crashes, edits of the export, removed
\* output files, and two of the settings changing
Spec == Init /\ [][Next]_vars

NextSettings ==
  \/ NewBuilder
  \/ \E path \in ExportPaths, force \in BOOLEAN : StartRun(path, force)
  \/ \E outcome \in Outcomes : ConvertPage(outcome)
  \/ UpdateAndOpen
  \/ WriteAndReturn
  \/ \E name \in SettingNames : ChangeSetting(name)

\* the builder with nothing but settings changing between its runs, every
\* setting among them
SpecSettings == Init /\ [][NextSettings]_vars

\* a step of a run that has started
RunStep ==
  \/ \E outcome \in Outcomes : ConvertPage(outcome)
  \/ UpdateAndOpen
  \/ WriteAndReturn

NextRun ==
  \/ \E path \in ExportPaths, force \in BOOLEAN : StartRun(path, force)
  \/ \E outcome \in Outcomes : ConvertPage(outcome)
  \/ UpdateAndOpen
  \/ WriteAndReturn

\* runs of a process that is not killed: execution is synchronous and single
\* threaded, so a run that has started takes its next step
SpecRun == Init /\ [][NextRun]_vars /\ WF_vars(RunStep)

\* ------------------------------------------------------------------ reset
\* the names of a kept file and of a file nobody generated
GitKeep == <<".", "g", "i", "t", "k", "e", "e", "p">>
Notes   == <<"n", "o", "t", "e", "s">>

\* files that lie in the exports directory before anything is built
OtherFiles ==
  (<<"exports", GitKeep>> :> [kept |-> TRUE])
  @@ (<<"exports", Lower(SpaceKey(ExportA)), Notes>> :> [notes |-> TRUE])

\* a reset that leaves the state file where it is
clean_outputs_only(s, fs, sf) ==
  LET unlinked == {q \in DOMAIN fs : q[1] = s.exports_dir /\ Name(q) # GitKeep} IN
  [files     |-> [q \in DOMAIN fs \ unlinked |-> fs[q]],
   stateFile |-> sf,
   state     |-> EmptyState,
   removed   |-> Cardinality(unlinked)]

\* ConversionBuilder.clean: the files and the state file it leaves, the
\* state it sets and the count it returns
clean(s, fs, sf) ==
  LET unlinked == {q \in DOMAIN fs : q[1] = s.exports_dir /\ Name(q) # GitKeep} IN
  [files     |-> [q \in DOMAIN fs \ unlinked |-> fs[q]],
   stateFile |-> Missing,
   state     |-> EmptyState,
   removed   |-> Cardinality(unlinked) + IF sf # Missing THEN 1 ELSE 0]

\* builder.clean() between two runs
Clean ==
  /\ pc = "idle"
  /\ LET cleaned == clean(settings, files, stateFile) IN
     /\ files' = cleaned.files
     /\ stateFile' = cleaned.stateFile
     /\ state' = cleaned.state
     /\ result' = [NoResult EXCEPT !.valid = FALSE] @@ [removed |-> cleaned.removed]
     /\ hist' = [hist EXCEPT
                   !.start = [stateFile |-> stateFile, files |-> files,
                              state |-> state],
                   !.last = [NoLast EXCEPT !.how = "cleaned",
                                           !.same_builder = TRUE]
                            @@ [removed |-> cleaned.removed],
                   !.outcomes = <<>>]
  /\ UNCHANGED <<settings, source, pc, run, clock, env, conv>>

\* as Init, with the other files in the exports directory
InitClean ==
  /\ settings = DefaultSettings
  /\ source \in [ExportPaths -> SourcesA \cup SourcesB]
  /\ source[ExportA] \in SourcesA
  /\ source[ExportB] \in SourcesB
  /\ \E built \in BuiltBefore :
       /\ files = BuiltFiles(source, built) @@ OtherFiles
       /\ stateFile = IF built = <<>> THEN Missing
                      ELSE Json(save_data(BuiltState(source, built)))
  /\ state = load_state(stateFile)
  /\ pc = "idle"
  /\ run = NoRun
  /\ result = NoResult
  /\ clock = 0
  /\ env = 0
  /\ hist = [start |-> NoStart, after |-> Missing, last |-> NoLast,
             prev |-> NoLast, outcomes |-> <<>>]
  /\ conv = NoConv

\* between runs, the last page of an export is removed from it
DropPage(path) ==
  /\ pc = "idle"
  /\ env < MaxEnvEvents
  /\ Len(source[path]) > 1
  /\ source' = [source EXCEPT ![path] = SubSeq(@, 1, Len(@) - 1)]
  /\ env' = env + 1
  /\ result' = NoResult
  /\ hist' = [hist EXCEPT !.last.changed = @ \cup {"source"}, !.outcomes = <<>>]
  /\ UNCHANGED <<settings, files, stateFile, state, pc, run, clock, conv>>

NextClean ==
  \/ NewBuilder
  \/ \E path \in ExportPaths, force \in BOOLEAN : StartRun(path, force)
  \/ \E outcome \in Outcomes : ConvertPage(outcome)
  \/ UpdateAndOpen
  \/ WriteAndReturn
  \/ \E name \in ChangingSettings : ChangeSetting(name)
  \/ \E path \in ExportPaths : DropPage(path)
  \/ Clean

\* the builder with resets, changed settings and dropped pages between its
\* runs
SpecClean == InitClean /\ [][NextClean]_vars

\* ---------------------------------------------- exports that are no trees
\* page lists whose parent references form a cycle or point at the page
\* itself, and a tree
LoopSources ==
  { <<PageData("1", Home, None, 0), PageData("2", SetUp, "3", 0),
      PageData("3", HomeX, "2", 0)>>,
    <<PageData("1", Home, None, 0), PageData("2", SetUp, "2", 0)>>,
    <<PageData("1", Home, None, 0), PageData("2", SetUp, "1", 0)>> }

\* as Init, the first export with one of these page lists
InitLoops ==
  /\ settings = DefaultSettings
  /\ source \in [ExportPaths -> LoopSources \cup SourcesB]
  /\ source[ExportA] \in LoopSources
  /\ source[ExportB] \in SourcesB
  /\ \E built \in BuiltBefore :
       /\ files = BuiltFiles(source, built)
       /\ stateFile = IF built = <<>> THEN Missing
                      ELSE Json(save_data(BuiltState(source, built)))
  /\ state = load_state(stateFile)
  /\ pc = "idle"
  /\ run = NoRun
  /\ result = NoResult
  /\ clock = 0
  /\ env = 0
  /\ hist = [start |-> NoStart, after |-> Missing, last |-> NoLast,
             prev |-> NoLast, outcomes |-> <<>>]
  /\ conv = NoConv

\* runs over exports whose parent references need not form a tree
SpecLoops == InitLoops /\ [][NextRun]_vars

\* ------------------------------------------------------- two builders
\* an export in another directory with the file name of ExportA
ExportC == <<"archive", "docs.zip">>
AllExportPaths == ExportPaths \cup {ExportC}

\* two builders were constructed one after the other in the same directory:
\* one is the live builder, the state of the other waits in conv
InitBuilders ==
  /\ settings = DefaultSettings
  /\ source \in [AllExportPaths -> SourcesA \cup SourcesB]
  /\ source[ExportA] \in SourcesA
  /\ source[ExportB] \in SourcesB
  /\ source[ExportC] \in SourcesB
  /\ \E built \in BuiltBefore :
       /\ files = BuiltFiles(source, built)
       /\ stateFile = IF built = <<>> THEN Missing
                      ELSE Json(save_data(BuiltState(source, built)))
  /\ state = load_state(stateFile)
  /\ pc = "idle"
  /\ run = NoRun
  /\ result = NoResult
  /\ clock = 0
  /\ env = 0
  /\ hist = [start |-> NoStart, after |-> Missing, last |-> NoLast,
             prev |-> NoLast, outcomes |-> <<>>]
  /\ conv = [kind |-> "builder", state |-> load_state(stateFile)]

\* between two runs the caller turns to the other builder: self.state of
\* each is what it was when that builder was last used
SwitchBuilder ==
  /\ pc = "idle"
  /\ state' = conv.state
  /\ conv' = [conv EXCEPT !.state = state]
  /\ result' = NoResult
  /\ hist' = [hist EXCEPT !.last.changed = @ \cup {"builder"}, !.outcomes = <<>>]
  /\ UNCHANGED <<settings, source, files, stateFile, pc, run, clock, env>>

NextBuilders ==
  \/ \E path \in AllExportPaths, force \in BOOLEAN : StartRun(path, force)
  \/ \E outcome \in Outcomes : ConvertPage(outcome)
  \/ UpdateAndOpen
  \/ WriteAndReturn
  \/ SwitchBuilder

\* runs of two builders of one process, never two at a time, over three
\* exports of which two have the same file name
SpecBuilders == InitBuilders /\ [][NextBuilders]_vars

\* --------------------------------------------------------- internal links
\* a title no page of the export has
Gone == <<"G", "o", "n", "e">>
See == <<"s", "e", "e">>
Url == <<"u", "r", "l">>
DotMd == <<".", "m", "d">>
DotDot == <<".", ".">>

RECURSIVE JoinText(_, _)
\* sep.join(parts), the parts being strings
JoinText(parts, sep) ==
  IF parts = <<>> THEN <<>>
  ELSE IF Len(parts) = 1 THEN parts[1]
  ELSE parts[1] \o <<sep>> \o JoinText(Tail(parts), sep)

RECURSIVE Split(_, _)
\* str.split(sep)
Split(text, sep) ==
  IF \A i \in 1..Len(text) : text[i] # sep THEN <<text>>
  ELSE LET i == CHOOSE i \in 1..Len(text) :
                  text[i] = sep /\ \A j \in 1..(i - 1) : text[j] # sep
       IN <<SubSeq(text, 1, i - 1)>> \o Split(SubSeq(text, i + 1, Len(text)), sep)

RECURSIVE TitlesTo(_, _)
\* the titles from the root down to the page: the loop of PageNode.path
TitlesTo(pages_by_id, id) ==
  IF pages_by_id[id].parent = None THEN <<pages_by_id[id].title>>
  ELSE Append(TitlesTo(pages_by_id, pages_by_id[id].parent), pages_by_id[id].title)

\* PageNode.path
page_path(pages_by_id, id) == JoinText(TitlesTo(pages_by_id, id), "/")

\* the length of the longest common prefix of two lists
CommonPrefix(a, b) ==
  LET Shorter == IF Len(a) < Len(b) THEN Len(a) ELSE Len(b)
      Agree(k) == \A i \in 1..k : a[i] = b[i]
  IN CHOOSE k \in 0..Shorter : Agree(k) /\ (k = Shorter \/ ~Agree(k + 1))

\* the last element of a non-empty list replaced by a slug and ".md"
AsFilename(parts) ==
  [parts EXCEPT ![Len(parts)] = slugify(@) \o DotMd]

\* MarkdownConverter._calculate_relative_path
calculate_relative_path(pages_by_id, from_page, to_page) ==
  LET from_path == Split(page_path(pages_by_id, from_page), "/")
      from_parts == SubSeq(from_path, 1, Len(from_path) - 1)
      to_parts == Split(page_path(pages_by_id, to_page), "/")
      common == CommonPrefix(from_parts, to_parts)
      up_count == Len(from_parts) - common
      rel_parts == [i \in 1..up_count |-> DotDot]
                   \o SubSeq(to_parts, common + 1, Len(to_parts))
  IN JoinText(IF rel_parts # <<>>
              THEN AsFilename(rel_parts)
              ELSE <<slugify(pages_by_id[to_page].title) \o DotMd>>, "/")

\* a missing-link branch that reports nothing
missing_page_link_unreported(handling, page_title, text, warnings) ==
  [markdown |-> IF handling = "comment"
                THEN <<"<!-- Link to missing page: ">> \o page_title
                     \o <<" -->", "[">> \o text \o <<"]">>
                ELSE IF handling = "strip" THEN text
                ELSE <<"[">> \o text \o <<"]">>,
   warnings |-> warnings]

\* the else branch of _convert_internal_link: the warning, then the text
\* the missing_page_links setting asks for
missing_page_link(handling, page_title, text, warnings) ==
  [markdown |-> IF handling = "comment"
                THEN <<"<!-- Link to missing page: ">> \o page_title
                     \o <<" -->", "[">> \o text \o <<"]">>
                ELSE IF handling = "strip" THEN text
                ELSE <<"[">> \o text \o <<"]">>,
   warnings |-> Append(warnings, <<"Link target not found: ">> \o page_title)]

\* a converter that looks the target up before it looks at the link style
convert_internal_link_resolving_first(link, text, c, s) ==
  LET page_title == IF link.page_title # <<>> THEN link.page_title ELSE text
      pages_by_id == c.export.pages_by_id
      found == link.page_id # None /\ link.page_id \in DOMAIN pages_by_id
  IN IF found
     THEN [markdown |->
             <<"[">> \o (IF text # <<>> THEN text ELSE pages_by_id[link.page_id].title)
             \o <<"]", "(">>
             \o calculate_relative_path(pages_by_id, c.current_page, link.page_id)
             \o <<")">>,
           warnings |-> c.warnings]
     ELSE IF s.internal_link_style = "title_only"
     THEN [markdown |-> <<"[">> \o page_title \o <<"]">>, warnings |-> c.warnings]
     ELSE missing_page_link(s.missing_page_links, page_title, text, c.warnings)

\* MarkdownConverter._convert_internal_link; an attribute that is None and
\* one that is "" act alike here and are both written <<>> for a title
convert_internal_link(link, text, c, s) ==
  LET page_title == IF link.page_title # <<>> THEN link.page_title ELSE text
      pages_by_id == c.export.pages_by_id
      found == link.page_id # None /\ link.page_id \in DOMAIN pages_by_id
  IN IF s.internal_link_style = "title_only"
     THEN [markdown |-> <<"[">> \o page_title \o <<"]">>, warnings |-> c.warnings]
     ELSE IF found
     THEN [markdown |->
             <<"[">> \o (IF text # <<>> THEN text ELSE pages_by_id[link.page_id].title)
             \o <<"]", "(">>
             \o calculate_relative_path(pages_by_id, c.current_page, link.page_id)
             \o <<")">>,
           warnings |-> c.warnings]
     ELSE missing_page_link(s.missing_page_links, page_title, text, c.warnings)

\* MarkdownConverter._convert_link
convert_link(link, c, s) ==
  IF link.page_id # None \/ link.page_title # <<>>
  THEN convert_internal_link(link, link.text, c, s)
  ELSE [markdown |-> IF link.href # <<>>
                     THEN <<"[">> \o link.text \o <<"]", "(">> \o link.href \o <<")">>
                     ELSE link.text,
        warnings |-> c.warnings]

\* ----------------------------------------------------- the section filter
\* skip_until_heading_level is None
NoLevel == 0

\* the nodes of a parsed body. level is the heading level (0: no heading)
\* and text the flattened text of a leaf (_get_node_text); the texts of
\* headings, Text nodes and macros are tokens. A node of type "link" holds
\* the attributes of a LinkElement, one of type "broken" is a Fragment
\* whose children attribute is None: the loop over it raises
Heading(level, text) == [type |-> "heading", level |-> level, text |-> text]
Text(text) == [type |-> "text", level |-> 0, text |-> text]
TextBreakElement(children) ==
  [type |-> "p", level |-> 0, text |-> "", children |-> children]
\* a paragraph that holds one Text
Paragraph(text) == [TextBreakElement(<<Text(text)>>) EXCEPT !.text = text]
Fragment(children) ==
  [type |-> "fragment", level |-> 0, text |-> "", children |-> children]
\* a node of a class the converter has no branch for, "Macro" in its name
Macro(name, text) == [type |-> "macro", level |-> 0, text |-> text, name |-> name]

Nodes ==
  {Heading(level, text) : level \in 1..3, text \in {"Intro", "Change Log"}}
  \cup {Paragraph("text"), Paragraph("")}

\* the parsed bodies: every sequence of up to MaxNodes nodes
Documents == UNION {[1..n -> Nodes] : n \in 0..MaxNodes}

\* the values of settings.exclude_sections
PatternLists ==
  {<<>>, <<ChangeLogAnywhere>>, <<IntroOnly>>, <<IntroOnly, ChangeLogAnywhere>>,
   <<Anything>>}

\* MarkdownConverter._should_skip_section
should_skip_section(heading_path, s) ==
  \E i \in 1..Len(s.exclude_sections) :
    fnmatch(Join(heading_path, "/"), s.exclude_sections[i])

\* a token text as a string: no token for the empty one
Tok(text) == IF text = "" THEN <<>> ELSE <<text>>

\* MarkdownConverter._handle_unknown_macro
handle_unknown_macro(node, s) ==
  IF s.unknown_macro_handling = "comment"
  THEN <<"<!-- Unknown macro: ", node.name, " -->", "\n">> \o Tok(node.text)
  ELSE IF s.unknown_macro_handling = "strip" THEN <<>>
  ELSE Tok(node.text)

\* what a conversion gives: its Markdown, the lists of the context as it
\* leaves them, and whether it raised
Converted(md, c) ==
  [md |-> md, warnings |-> c.warnings, unknown_macros |-> c.unknown_macros,
   raised |-> FALSE]

RECURSIVE convert_text_element(_, _, _)
\* MarkdownConverter._convert_text_element, over the children left: the
\* text of a Text, the Markdown of a link, the flattened text of any other
\* child, concatenated
convert_text_element(children, c, s) ==
  IF children = <<>> THEN Converted(<<>>, c)
  ELSE LET child == Head(children)
           first == IF child.type = "link"
                    THEN convert_link(child.link, c, s)
                    ELSE [markdown |-> Tok(child.text), warnings |-> c.warnings]
           rest == convert_text_element(Tail(children),
                                        [c EXCEPT !.warnings = first.warnings], s)
       IN [rest EXCEPT !.md = first.markdown \o @]

RECURSIVE convert_node(_, _, _)
RECURSIVE convert_fragment(_, _, _, _)
\* the Fragment branch of _convert_node, over the children left: the
\* Markdown of every child that has any, joined with a blank line
convert_fragment(children, parts, c, s) ==
  IF children = <<>> THEN Converted(JoinText(parts, "\n\n"), c)
  ELSE LET r == convert_node(Head(children), c, s) IN
       IF r.raised THEN r
       ELSE convert_fragment(Tail(children),
                             IF r.md # <<>> THEN Append(parts, r.md) ELSE parts,
                             [c EXCEPT !.warnings = r.warnings,
                                       !.unknown_macros = r.unknown_macros], s)

\* MarkdownConverter._convert_node in the context c
convert_node(node, c, s) ==
  CASE node.type = "heading" ->
         Converted([i \in 1..(IF node.level < s.max_heading_level
                                 THEN node.level ELSE s.max_heading_level)
                        |-> "#"] \o <<" ", node.text>>, c)
    [] node.type = "p" -> convert_text_element(node.children, c, s)
    [] node.type = "text" -> Converted(Tok(node.text), c)
    [] node.type = "link" ->
         LET r == convert_link(node.link, c, s)
         IN [Converted(r.markdown, c) EXCEPT !.warnings = r.warnings]
    [] node.type = "fragment" -> convert_fragment(node.children, <<>>, c, s)
    [] node.type = "macro" ->
         [Converted(handle_unknown_macro(node, s), c) EXCEPT
            !.unknown_macros = Append(@, node.name)]
    [] node.type = "broken" -> [Converted(<<>>, c) EXCEPT !.raised = TRUE]

\* the append without the loop that pops
push_heading_without_pop(heading_path, level, text) == Append(heading_path, text)

\* the while loop that pops heading_path, then the append
push_heading(heading_path, level, text) ==
  Append(IF Len(heading_path) >= level
         THEN SubSeq(heading_path, 1, level - 1) ELSE heading_path, text)

start_document_skipping(nodes) ==
  [kind |-> "document", nodes |-> nodes, k |-> 1, parts |-> <<>>,
   heading_path |-> <<>>, skip_until_heading_level |-> 1,
   export |-> parse(ExportA, <<PageData("1", Home, None, 0)>>),
   current_page |-> "1", warnings |-> <<>>, unknown_macros |-> <<>>,
   raised |-> FALSE,
   skipped_sections |-> <<>>, trace |-> <<>>, done |-> FALSE,
   markdown |-> <<>>]

\* the locals of _convert_document before its loop with the context it is
\* given, and the history of the loop: per node, the skip level before and
\* after it, the heading path it gave, whether the path matched, whether the
\* node was handed to _convert_node, the Markdown that gave and whether it
\* was appended
start_document(nodes) ==
  [kind |-> "document", nodes |-> nodes, k |-> 1, parts |-> <<>>,
   heading_path |-> <<>>, skip_until_heading_level |-> NoLevel,
   export |-> parse(ExportA, <<PageData("1", Home, None, 0)>>),
   current_page |-> "1", warnings |-> <<>>, unknown_macros |-> <<>>,
   raised |-> FALSE,
   skipped_sections |-> <<>>, trace |-> <<>>, done |-> FALSE,
   markdown |-> <<>>]

\* one iteration of the loop of _convert_document
convert_document_step(c, s) ==
  LET node == c.nodes[c.k]
      is_heading == node.type = "heading"
      reset == /\ is_heading
               /\ c.skip_until_heading_level # NoLevel
               /\ node.level <= c.skip_until_heading_level
      skip1 == IF reset THEN NoLevel ELSE c.skip_until_heading_level
      path1 == IF is_heading
               THEN push_heading(c.heading_path, node.level, node.text)
               ELSE c.heading_path
      matched == is_heading /\ should_skip_section(path1, s)
      skip2 == IF matched THEN node.level ELSE skip1
      rendered == ~matched /\ skip1 = NoLevel
      r == convert_node(node, c, s)
      md == IF rendered /\ ~r.raised THEN r.md ELSE <<>>
      emitted == md # <<>>
  IN [c EXCEPT
        !.k = @ + 1,
        !.heading_path = path1,
        !.skip_until_heading_level = skip2,
        !.skipped_sections = IF matched THEN Append(@, Join(path1, "/")) ELSE @,
        !.parts = IF emitted THEN Append(@, md) ELSE @,
        !.warnings = IF rendered THEN r.warnings ELSE @,
        !.unknown_macros = IF rendered THEN r.unknown_macros ELSE @,
        !.raised = rendered /\ r.raised,
        !.trace = Append(@, [before |-> c.skip_until_heading_level,
                             after |-> skip2, path |-> path1,
                             matched |-> matched, rendered |-> rendered,
                             md |-> md, emitted |-> emitted])]

BuilderVars ==
  <<source, files, stateFile, state, pc, run, result, clock, env, hist>>

\* a body has been parsed and _convert_document is about to walk it
InitRender ==
  /\ \E patterns \in PatternLists :
       settings = [DefaultSettings EXCEPT !.exclude_sections = patterns]
  /\ source = [path \in ExportPaths |-> <<PageData("1", Home, None, 0)>>]
  /\ files = <<>>
  /\ stateFile = Missing
  /\ state = EmptyState
  /\ pc = "convert"
  /\ run = NoRun
  /\ result = NoResult
  /\ clock = 0
  /\ env = 0
  /\ hist = [start |-> NoStart, after |-> Missing, last |-> NoLast,
             prev |-> NoLast, outcomes |-> <<>>]
  /\ \E nodes \in Documents : conv = start_document(nodes)

\* the body of the loop, for the next node
ConvertNode ==
  /\ conv.kind = "document"
  /\ ~conv.done
  /\ ~conv.raised
  /\ conv.k <= Len(conv.nodes)
  /\ conv' = convert_document_step(conv, settings)
  /\ UNCHANGED settings
  /\ UNCHANGED BuilderVars

\* the loop is over: "\n\n".join(parts) is returned
ReturnDocument ==
  /\ conv.kind = "document"
  /\ ~conv.done
  /\ ~conv.raised
  /\ conv.k > Len(conv.nodes)
  /\ conv' = [conv EXCEPT !.done = TRUE, !.markdown = JoinText(conv.parts, "\n\n")]
  /\ UNCHANGED settings
  /\ UNCHANGED BuilderVars

NextRender == ConvertNode \/ ReturnDocument

\* _convert_document over every body and every list of exclusion patterns
SpecRender == InitRender /\ [][NextRender]_vars

\* ------------------------------------------------------ converting a page
\* the whitespace among the tokens in use
Whitespace == {" ", "\n", "\n\n"}

\* a conversion that leaves the ends of the text as they are
strip_nothing(text) == text

\* str.strip()
strip(text) ==
  LET solid == {i \in 1..Len(text) : text[i] \notin Whitespace} IN
  IF solid = {} THEN <<>>
  ELSE SubSeq(text, CHOOSE i \in solid : \A j \in solid : i <= j,
                    CHOOSE i \in solid : \A j \in solid : j <= i)

\* a convert without the except clause: what the walk had emitted when it
\* raised is returned as the result of the page
convert_without_fallback(c, page, s) ==
  [markdown |-> strip(JoinText(c.parts, "\n\n")) \o <<"\n">>,
   frontmatter |-> <<>>,
   warnings |-> c.warnings,
   skipped_sections |-> c.skipped_sections,
   unknown_macros |-> c.unknown_macros]

\* MarkdownConverter.convert from the end of its try block on, c being what
\* parsing and walking the body gave: the except clause if that raised, the
\* frontmatter, the strip and the ConversionResult
convert(c, page, s) ==
  LET markdown == IF c.raised
                  THEN <<"<!-- Parse error: ", "e", " -->", "\n\n", page.body_content>>
                  ELSE c.markdown
      \* _build_frontmatter for a page without dates and labels
      build_frontmatter ==
        IF \E i \in 1..Len(s.frontmatter_fields) : s.frontmatter_fields[i] = "title"
        THEN <<[key |-> "title", value |-> page.title]>> ELSE <<>>
      frontmatter == IF s.include_frontmatter THEN build_frontmatter ELSE <<>>
      \* _format_frontmatter: a value with ":" or a newline in it is quoted
      line(item) ==
        IF \E i \in 1..Len(item.value) : item.value[i] \in {":", "\n"}
        THEN <<item.key, ": ", "\"">> \o item.value \o <<"\"">>
        ELSE <<item.key, ": ">> \o item.value
      format_frontmatter ==
        JoinText(<< <<"---">> >> \o [k \in 1..Len(frontmatter) |-> line(frontmatter[k])]
                 \o << <<"---">> >>, "\n")
  IN [markdown |-> strip(IF frontmatter # <<>>
                         THEN format_frontmatter \o <<"\n">> \o markdown
                         ELSE markdown) \o <<"\n">>,
      frontmatter |-> frontmatter,
      warnings |-> IF c.raised
                   THEN Append(c.warnings, <<"Parse error: ", "e">>)
                   ELSE c.warnings,
      skipped_sections |-> c.skipped_sections,
      unknown_macros |-> c.unknown_macros]

\* the nodes a parsed body is made of here: headings, paragraphs (one of
\* blanks only), an unknown macro at the top level, in a fragment and in a
\* paragraph, a paragraph with a link to no page, and a node that raises
BodyNodes ==
  {Heading(1, "Intro"), Heading(2, "Change Log"), Paragraph("text"),
   Paragraph(" "), Macro("jira", "body"),
   Fragment(<<Macro("jira", "body"), Paragraph("text")>>),
   TextBreakElement(<<Text("text"), Macro("jira", "body")>>),
   TextBreakElement(<<[type |-> "link", level |-> 0, text |-> See,
                       link |-> [page_id |-> "9", page_title |-> Gone,
                                 text |-> See, href |-> <<>>]]>>),
   [type |-> "broken", level |-> 0, text |-> ""]}

\* a page is about to be converted: its body is empty, blank or not, and
\* the cache holds nothing
InitConvert ==
  /\ \E include_frontmatter \in BOOLEAN, fields \in {<<"title">>, <<>>},
        handling \in {"comment", "strip", "preserve_text"},
        patterns \in {<<>>, <<IntroOnly>>} :
       settings = [DefaultSettings EXCEPT
                     !.include_frontmatter = include_frontmatter,
                     !.frontmatter_fields = fields,
                     !.unknown_macro_handling = handling,
                     !.exclude_sections = patterns]
  /\ \E body \in {"", " ", BodyA} :
       source = [path \in ExportPaths |->
                   <<[PageData("1", Home, None, 0) EXCEPT !.body = body]>>]
  /\ conv = [kind |-> "page"]
  /\ files = <<>>
  /\ stateFile = Missing
  /\ state = EmptyState
  /\ pc = "convert"
  /\ run = NoRun
  /\ result = NoResult
  /\ clock = 0
  /\ env = 0
  /\ hist = [start |-> NoStart, after |-> Missing, last |-> NoLast,
             prev |-> NoLast, outcomes |-> <<>>]

\* the head of convert: a blank body gives "" at once; any other is parsed,
\* which raises or gives a document to walk
ParseBody ==
  /\ conv.kind = "page"
  /\ LET c == [start_document(<<>>) EXCEPT !.export = parse(ExportA, source[ExportA])]
     IN IF c.export.pages_by_id["1"].body_content \in {""} \cup Whitespace
        THEN conv' = [c EXCEPT !.done = TRUE]
        ELSE \/ conv' = [c EXCEPT !.raised = TRUE]
             \/ \E n \in 0..(MaxNodes - 1) : \E nodes \in [1..n -> BodyNodes] :
                  conv' = [c EXCEPT !.nodes = nodes]
  /\ UNCHANGED settings
  /\ UNCHANGED BuilderVars

\* the rest of convert, once the walk has returned or raised
ReturnResult ==
  /\ conv.kind = "document"
  /\ conv.done \/ conv.raised
  /\ conv' = [kind |-> "result", walked |-> conv,
              result |-> convert(conv, conv.export.pages_by_id["1"], settings),
              report |-> <<>>, selected |-> <<>>]
  /\ UNCHANGED settings
  /\ UNCHANGED BuilderVars

\* _convert_page after convert has returned: the file and the report
ReportPage ==
  /\ conv.kind = "result"
  /\ LET export == parse(ExportA, source[ExportA])
         outcome == IF conv.result.warnings # <<>> THEN "partial" ELSE "success"
         report == [convert_page(settings, export.pages_by_id["1"], export, outcome)
                      EXCEPT !.warnings = conv.result.warnings]
     IN /\ files' = (report.output_file :> conv.result.markdown) @@ files
        /\ conv' = [conv EXCEPT !.kind = "reported", !.report = report]
  /\ UNCHANGED <<settings, source, stateFile, state, pc, run, result, clock,
                 env, hist>>

\* _update_state and _save_state with the report of the page
RecordPage ==
  /\ conv.kind = "reported"
  /\ state' = update_state(state, settings, parse(ExportA, source[ExportA]),
                           <<conv.report>>, clock)
  /\ stateFile' = Json(save_data(state'))
  /\ conv' = [conv EXCEPT !.kind = "recorded"]
  /\ UNCHANGED <<settings, source, files, pc, run, result, clock, env, hist>>

\* _determine_pages_to_convert of the next unforced run, nothing changed
SelectAgain ==
  /\ conv.kind = "recorded"
  /\ conv' = [conv EXCEPT
                !.kind = "selected",
                !.selected = determine_pages_to_convert(
                               state, settings, parse(ExportA, source[ExportA]),
                               FALSE, files)]
  /\ UNCHANGED settings
  /\ UNCHANGED BuilderVars

NextConvert ==
  \/ ParseBody
  \/ ConvertNode
  \/ ReturnDocument
  \/ ReturnResult
  \/ ReportPage
  \/ RecordPage
  \/ SelectAgain

\* convert and what the builder does with its result, for one page
SpecConvert == InitConvert /\ [][NextConvert]_vars

\* ------------------------------------------------- loading the state file
\* a dict with the keys of S only
Restrict(dict, S) == [key \in S |-> dict[key]]

\* the document _save_state writes after one export of one page was built
WrittenDocument ==
  save_data(BuiltState([path \in ExportPaths |-> <<PageData("1", Home, None, 0)>>],
                       <<ExportB>>))

WrittenExport == WrittenDocument.exports[Name(ExportB)]

\* what a state file may hold for a page: no object, or an object with any
\* of the four fields
PageDatas ==
  {NotAnObject}
  \cup {Restrict(WrittenExport.pages["1"], S) :
          S \in SUBSET {"title", "output_path", "content_hash", "converted_at"}}

\* ... for "pages"
PagesValues == {NotAnObject, <<>>} \cup {("1" :> page_data) : page_data \in PageDatas}

\* ... for an export
ExportDatas ==
  {NotAnObject}
  \cup {Restrict([WrittenExport EXCEPT !.pages = pages], S) :
          S \in SUBSET {"source_path", "source_mtime", "source_hash", "pages"},
          pages \in PagesValues}

\* ... for "exports"
ExportsValues ==
  {NotAnObject, <<>>}
  \cup {(Name(ExportB) :> export_data) : export_data \in ExportDatas}

\* the JSON documents a state file may hold: no object, or an object with any
\* of the three fields and possibly one that this version does not know
StateDocuments ==
  {NotAnObject}
  \cup {Restrict([version |-> WrittenDocument.version,
                  settings_hash |-> WrittenDocument.settings_hash,
                  exports |-> exports, written_by |-> "2.0"], S) :
          S \in SUBSET {"version", "settings_hash", "exports", "written_by"},
          exports \in ExportsValues}

\* what a builder may find where its state file should be
StateFiles ==
  {Missing, Unreadable, Truncated} \cup {Json(data) : data \in StateDocuments}

\* no builder yet, and anything in the place of the state file
InitLoad ==
  /\ settings = DefaultSettings
  /\ source = [path \in ExportPaths |-> <<PageData("1", Home, None, 0)>>]
  /\ files = <<>>
  /\ stateFile \in StateFiles
  /\ state = EmptyState
  /\ pc = "none"
  /\ run = NoRun
  /\ result = NoResult
  /\ clock = 0
  /\ env = 0
  /\ hist = [start |-> NoStart, after |-> Missing, last |-> NoLast,
             prev |-> NoLast, outcomes |-> <<>>]
  /\ conv = NoConv

NextLoad == NewBuilder

\* the construction of a builder over every content of the state file
SpecLoad == InitLoad /\ [][NextLoad]_vars

\* ------------------------------------------------------ the link inputs
\* the titles of the pages of the exports with links
LinkTitles == <<Home, HomeX, SetUp, SetSlashUp>>

\* the permutations of 1..n
Orders(n) ==
  {f \in [1..n -> 1..n] : \A i, j \in 1..n : i # j => f[i] # f[j]}

\* the page trees: a root with a child, a grandchild and a second child, or
\* two roots with a child each, the four titles given to the pages in every
\* order
LinkSources ==
  UNION {
    { <<PageData("1", LinkTitles[f[1]], None, 0),
        PageData("2", LinkTitles[f[2]], "1", 0),
        PageData("3", LinkTitles[f[3]], "2", 0),
        PageData("4", LinkTitles[f[4]], "1", 1)>>,
      <<PageData("1", LinkTitles[f[1]], None, 0),
        PageData("2", LinkTitles[f[2]], None, 1),
        PageData("3", LinkTitles[f[3]], "1", 0),
        PageData("4", LinkTitles[f[4]], "2", 0)>> } : f \in Orders(4) }

\* the Link nodes: a page reference by id (one id is of no page), by title
\* or by both, and links to a URL or to nothing
Links ==
  {[page_id |-> page_id, page_title |-> page_title, text |-> text, href |-> <<>>] :
     page_id \in {None, "1", "3", "4", "9"},
     page_title \in {<<>>, Home, SetSlashUp, Gone},
     text \in {<<>>, See}}
  \cup {[page_id |-> None, page_title |-> <<>>, text |-> See, href |-> href] :
          href \in {<<>>, Url}}

\* the context of one _convert_link call and, once it returned, its result
start_link(export, current_page, link, warnings) ==
  [kind |-> "link", export |-> export, current_page |-> current_page,
   link |-> link, warnings |-> warnings, done |-> FALSE,
   markdown |-> <<>>, warnings_before |-> warnings]

\* the renderer is on a Link node of a page of a parsed export
InitLinks ==
  /\ \E style \in {"relative", "title_only"}, handling \in {"comment", "strip", "preserve"} :
       settings = [DefaultSettings EXCEPT !.internal_link_style = style,
                                          !.missing_page_links = handling]
  /\ \E pages \in LinkSources :
       /\ source = [path \in ExportPaths |-> pages]
       /\ \E current_page \in {"2", "3"}, link \in Links,
             warnings \in {<<>>, << <<"Unknown macro: ">> >>} :
            conv = start_link(parse(ExportA, pages), current_page, link, warnings)
  /\ files = <<>>
  /\ stateFile = Missing
  /\ state = EmptyState
  /\ pc = "convert"
  /\ run = NoRun
  /\ result = NoResult
  /\ clock = 0
  /\ env = 0
  /\ hist = [start |-> NoStart, after |-> Missing, last |-> NoLast,
             prev |-> NoLast, outcomes |-> <<>>]

\* _convert_link on the node
ConvertLink ==
  /\ conv.kind = "link"
  /\ ~conv.done
  /\ LET r == convert_link(conv.link, conv, settings)
     IN conv' = [conv EXCEPT !.done = TRUE, !.markdown = r.markdown,
                             !.warnings = r.warnings]
  /\ UNCHANGED settings
  /\ UNCHANGED BuilderVars

NextLinks == ConvertLink

\* _convert_link over every page tree, current page, link and link setting
SpecLinks == InitLinks /\ [][NextLinks]_vars

\* ----------------------------------------------------------------- claims
\* the run has selected its pages and converted none yet
JustStarted == pc = "convert" /\ run.i = 1

\* a run has just returned its BuildResult
JustReturned == result.valid /\ hist.last.how = "completed"

\* the pages of the export at path as the parser reads them now
PagesOf(path) == parse(path, source[path]).pages_by_id

\* the run that returned was the second of two consecutive runs of one
\* export on one builder, nothing was changed between them and no page
\* failed in the first
SecondOfTwoRuns ==
  /\ JustReturned
  /\ ~hist.last.force
  /\ hist.prev.how = "completed"
  /\ hist.prev.same_builder
  /\ hist.prev.changed = {}
  /\ hist.prev.path = hist.last.path
  /\ hist.prev.failed = {}

\* C1: idempotence: the second of two consecutive runs of an unchanged export
\* converts no page, has no report and counts every page as skipped
C1_Idempotence ==
  SecondOfTwoRuns =>
    /\ result.pages_converted = 0
    /\ result.page_reports = <<>>
    /\ result.pages_skipped = Cardinality(DOMAIN PagesOf(hist.last.path))

\* a second run of the two-page export whose first run converted both pages
C1_Witness ==
  /\ SecondOfTwoRuns
  /\ Len(hist.prev.selected) = 2
  /\ result.pages_skipped = 2

\* C2: force override: a forced run selects every page of the export, and
\* skips none, whatever the cache holds
C2_ForceSelectsAll ==
  /\ (JustStarted /\ run.force) =>
       /\ Range(run.pages_to_convert) = DOMAIN run.export.pages_by_id
       /\ Len(run.pages_to_convert) = Cardinality(DOMAIN run.export.pages_by_id)
  /\ (JustReturned /\ hist.last.force) => result.pages_skipped = 0

\* a forced run starts on a cache from which an unforced run would select
\* nothing
C2_Witness ==
  /\ JustStarted
  /\ run.force
  /\ Len(run.pages_to_convert) = 2
  /\ state.settings_hash = hash_settings(settings)
  /\ \A id \in DOMAIN run.export.pages_by_id :
       /\ HasRecord(state, run.export.path, id)
       /\ RecordOf(state, run.export.path, id).output_path \in DOMAIN files
       /\ RecordOf(state, run.export.path, id).content_hash
            = content_hash(run.export.pages_by_id[id])

\* the six conditions of the selection rule, for page id of the run
RequiresConversion(id) ==
  \/ run.force
  \/ state.settings_hash # hash_settings(settings)
  \/ Name(run.export.path) \notin DOMAIN state.exports
  \/ ~HasRecord(state, run.export.path, id)
  \/ RecordOf(state, run.export.path, id).output_path \notin DOMAIN files
  \/ RecordOf(state, run.export.path, id).content_hash
       # content_hash(run.export.pages_by_id[id])

\* C3: selection rule: a page is selected iff force is set, the fingerprint
\* differs, the export has no entry, the page has no record, its recorded
\* output does not exist, or its content hash differs from the recorded one
C3_SelectionRule ==
  JustStarted =>
    \A id \in DOMAIN run.export.pages_by_id :
      id \in Range(run.pages_to_convert) <=> RequiresConversion(id)

\* a run that selects one page only because its recorded output is gone and
\* leaves the other page out
C3_Witness ==
  /\ JustStarted
  /\ ~run.force
  /\ state.settings_hash = hash_settings(settings)
  /\ \E id \in Range(run.pages_to_convert) :
       /\ HasRecord(state, run.export.path, id)
       /\ RecordOf(state, run.export.path, id).content_hash
            = content_hash(run.export.pages_by_id[id])
       /\ RecordOf(state, run.export.path, id).output_path \notin DOMAIN files
  /\ \E id \in DOMAIN run.export.pages_by_id : id \notin Range(run.pages_to_convert)

\* a run of an export starts, unforced, right after a completed run of the
\* same export, and only settings were changed between the two
AfterSettingsChange ==
  /\ JustStarted
  /\ ~run.force
  /\ hist.prev.how = "completed"
  /\ hist.prev.changed = {"settings"}
  /\ hist.prev.path = run.export.path

\* C4: settings-change invalidation: when a fingerprinted setting differs
\* from what it was at the previous run, the run selects every page; when
\* only other settings differ, it selects what it would have selected under
\* the previous settings
C4_SettingsChange ==
  AfterSettingsChange =>
    IF \E n \in FingerprintedSettings : hist.prev.settings[n] # settings[n]
    THEN Range(run.pages_to_convert) = DOMAIN run.export.pages_by_id
    ELSE run.pages_to_convert =
           determine_pages_to_convert(state, hist.prev.settings, run.export,
                                      FALSE, files)

\* a fingerprinted setting was changed after a run without failures, and the
\* run selects both pages where the previous settings would select none
C4_Witness ==
  /\ AfterSettingsChange
  /\ \E n \in FingerprintedSettings : hist.prev.settings[n] # settings[n]
  /\ hist.prev.failed = {}
  /\ Len(run.pages_to_convert) = 2
  /\ determine_pages_to_convert(state, hist.prev.settings, run.export,
                                FALSE, files) = <<>>

\* C5: the fingerprint covers the settings that affect rendered output: when
\* any of them differs from what it was at the previous run, the fingerprint
\* differs from the stored one and the run selects every page
C5_RenderSettingsFingerprinted ==
  (AfterSettingsChange
     /\ \E n \in RenderSettings : hist.prev.settings[n] # settings[n]) =>
    /\ state.settings_hash # hash_settings(settings)
    /\ Range(run.pages_to_convert) = DOMAIN run.export.pages_by_id

\* an unforced run starts right after a completed run of the same export,
\* with nothing changed between the two
AfterCompletedRun ==
  /\ JustStarted
  /\ ~run.force
  /\ hist.prev.how = "completed"
  /\ hist.prev.changed = {}
  /\ hist.prev.path = run.export.path

\* C6: failed pages are retried: a run leaves the record of a page that
\* failed as it was, and the next unforced run of the export selects the
\* page again
C6_FailedPagesRetried ==
  /\ JustReturned =>
       \A id \in hist.last.failed :
         /\ HasRecord(state, hist.last.path, id) <=> id \in DOMAIN hist.last.records
         /\ HasRecord(state, hist.last.path, id) =>
              RecordOf(state, hist.last.path, id) = hist.last.records[id]
  /\ AfterCompletedRun => hist.prev.failed \subseteq Range(run.pages_to_convert)

\* C7: after a run, every page reported success or partial has a record in
\* the export's entry, in memory and in the state file, with the page's
\* current content hash and title and the path its output was written to
C7_RecordsUpdated ==
  JustReturned =>
    /\ load_state(stateFile) = state
    /\ \A k \in 1..Len(result.page_reports) :
         LET report == result.page_reports[k]
             page == PagesOf(hist.last.path)[report.page_id]
         IN report.status \in {"success", "partial"} =>
              /\ HasRecord(state, hist.last.path, report.page_id)
              /\ RecordOf(state, hist.last.path, report.page_id).content_hash
                   = content_hash(page)
              /\ RecordOf(state, hist.last.path, report.page_id).title = page.title
              /\ RecordOf(state, hist.last.path, report.page_id).output_path
                   = report.output_file
              /\ report.output_file
                   = get_output_path(settings, page,
                                     parse(hist.last.path, source[hist.last.path]))
              /\ report.output_file \in DOMAIN files

\* a run has replaced the record of a page whose content had changed, and
\* the page was converted with a warning
C7_Witness ==
  /\ JustReturned
  /\ \E k \in 1..Len(result.page_reports) :
       LET report == result.page_reports[k] IN
       /\ report.status = "partial"
       /\ report.page_id \in DOMAIN hist.last.records
       /\ hist.last.records[report.page_id].content_hash
            # RecordOf(state, hist.last.path, report.page_id).content_hash

\* C8: the state file is written once per run, after the page loop: during
\* the loop, and after a crash in it, the file is what it was when the run
\* started
C8_FlushedOnceAtEnd ==
  (pc = "convert" \/ hist.last.how = "crashed") =>
    stateFile = hist.start.stateFile

\* a run has crashed after it had written the output of a page, with a
\* state file from an earlier run on disk
C8_Witness ==
  /\ hist.last.how = "crashed"
  /\ hist.last.written # {}
  /\ stateFile.kind = "json"

\* C9: the save is atomic: during a run, and after a crash anywhere in it,
\* the state a new builder would load is the one from before the run or the
\* complete one after it
C9_AtomicSave ==
  (pc \in {"convert", "write"}
     \/ hist.last.how \in {"crashed", "crashed_in_save"}) =>
    \/ load_state(stateFile) = load_state(hist.start.stateFile)
    \/ load_state(stateFile) = load_state(hist.after)

\* an unforced run of an export starts on a new builder right after a run of
\* the same export crashed before its save, with nothing changed in between
AfterCrash ==
  /\ JustStarted
  /\ ~run.force
  /\ hist.prev.how = "crashed"
  /\ hist.prev.changed = {}
  /\ hist.prev.path = run.export.path

\* C10: crash recovery: the run after a crash selects exactly the pages the
\* crashed run had selected
C10_CrashRecovery ==
  AfterCrash => Range(run.pages_to_convert) = Range(hist.prev.selected)

\* the JSON value is an object
IsObject(value) == value # NotAnObject

\* the document has the shape _save_state writes, whatever fields it lacks:
\* an object whose "exports" is an object of objects whose "pages" are
\* objects of objects
WellFormed(data) ==
  /\ IsObject(data)
  /\ "exports" \in DOMAIN data =>
       /\ IsObject(data.exports)
       /\ \A export_name \in DOMAIN data.exports :
            LET export_data == data.exports[export_name] IN
            /\ IsObject(export_data)
            /\ "pages" \in DOMAIN export_data =>
                 /\ IsObject(export_data.pages)
                 /\ \A page_id \in DOMAIN export_data.pages :
                      IsObject(export_data.pages[page_id])

\* the field of the loaded object is the one of the document, or the default
FieldOrDefault(loaded, data, field, default) ==
  loaded[field] = IF field \in DOMAIN data THEN data[field] ELSE default

\* C11: constructing a builder never raises, whatever the state file holds.
\* A file that is missing, unreadable, no JSON or JSON of another shape
\* gives the empty state; in a file of the right shape every field that is
\* there is loaded and every field that is missing takes its default.
C11_LoadNeverFatal ==
  /\ pc # "raised"
  /\ pc = "idle" =>
       IF stateFile.kind # "json" THEN state = EmptyState
       ELSE IF ~WellFormed(stateFile.data) THEN state = EmptyState
       ELSE LET data == stateFile.data
                exports_data == IF "exports" \in DOMAIN data
                                THEN data.exports ELSE <<>>
            IN /\ FieldOrDefault(state, data, "version", "1.0")
               /\ FieldOrDefault(state, data, "settings_hash", EmptyText)
               /\ DOMAIN state.exports = DOMAIN exports_data
               /\ \A export_name \in DOMAIN exports_data :
                    LET export_data == exports_data[export_name]
                        loaded == state.exports[export_name]
                        pages_data == IF "pages" \in DOMAIN export_data
                                      THEN export_data.pages ELSE <<>>
                    IN /\ \A field \in {"source_path", "source_mtime", "source_hash"} :
                            FieldOrDefault(loaded, export_data, field, EmptyText)
                       /\ DOMAIN loaded.pages = DOMAIN pages_data
                       /\ \A page_id \in DOMAIN pages_data :
                            \A field \in {"title", "output_path", "content_hash",
                                          "converted_at"} :
                              FieldOrDefault(loaded.pages[page_id],
                                             pages_data[page_id], field, EmptyText)

\* a builder was constructed over a document that carries a fingerprint and
\* an export whose page is no object, and started from the empty state
C11_Witness ==
  /\ pc = "idle"
  /\ stateFile.kind = "json"
  /\ IsObject(stateFile.data)
  /\ DOMAIN stateFile.data = {"version", "settings_hash", "exports", "written_by"}
  /\ IsObject(stateFile.data.exports)
  /\ Name(ExportB) \in DOMAIN stateFile.data.exports
  /\ IsObject(stateFile.data.exports[Name(ExportB)])
  /\ "pages" \in DOMAIN stateFile.data.exports[Name(ExportB)]
  /\ stateFile.data.exports[Name(ExportB)].pages = ("1" :> NotAnObject)
  /\ state = EmptyState
\* two build states with the same fingerprint, the same export names and,
\* per export, the same page ids with the same four fields
Equivalent(a, b) ==
  /\ a.settings_hash = b.settings_hash
  /\ DOMAIN a.exports = DOMAIN b.exports
  /\ \A export_name \in DOMAIN a.exports :
       /\ DOMAIN a.exports[export_name].pages = DOMAIN b.exports[export_name].pages
       /\ \A page_id \in DOMAIN a.exports[export_name].pages :
            LET x == a.exports[export_name].pages[page_id]
                y == b.exports[export_name].pages[page_id]
            IN /\ x.title = y.title
               /\ x.output_path = y.output_path
               /\ x.content_hash = y.content_hash
               /\ x.converted_at = y.converted_at

\* C12: the build state a builder holds, saved and loaded again, is an
\* equivalent state; and the file a completed run leaves is that saved
\* document, so a new builder starts from an equivalent state.
C12_StateRoundTrip ==
  /\ Equivalent(load_state(Json(save_data(state))), state)
  /\ (JustReturned /\ hist.last.same_builder) =>
       /\ stateFile = Json(save_data(state))
       /\ Equivalent(load_state(stateFile), state)

\* a run has returned and left a state of two exports whose pages were
\* converted at different times
C12_Witness ==
  /\ JustReturned
  /\ hist.last.same_builder
  /\ Cardinality(DOMAIN state.exports) = 2
  /\ \E e1, e2 \in DOMAIN state.exports :
       \E p1 \in DOMAIN state.exports[e1].pages,
          p2 \in DOMAIN state.exports[e2].pages :
         state.exports[e1].pages[p1].converted_at
           # state.exports[e2].pages[p2].converted_at
\* the reports so far are those of the selected pages so far, in selection
\* order, and every conversion that raised is reported as failed with the
\* error text
AlignedReports(reports, selected, outcomes) ==
  /\ Len(reports) = Len(outcomes)
  /\ Len(reports) <= Len(selected)
  /\ \A k \in 1..Len(reports) :
       /\ reports[k].page_id = selected[k]
       /\ Raises(outcomes[k]) =>
            reports[k].status = "failed" /\ reports[k].errors # <<>>

\* in the page loop one page has been handled per iteration whatever failed
\* before, the loop is left only after the last selected page, and the
\* BuildResult returned counts and reports every selected page
ReportsOfEveryPage ==
  /\ pc = "convert" =>
       /\ Len(run.reports) = run.i - 1
       /\ AlignedReports(run.reports, run.pages_to_convert, hist.outcomes)
  /\ pc = "write" =>
       /\ Len(run.reports) = Len(run.pages_to_convert)
       /\ AlignedReports(run.reports, run.pages_to_convert, hist.outcomes)
  /\ JustReturned =>
       /\ Len(result.page_reports) = Len(hist.last.selected)
       /\ AlignedReports(result.page_reports, hist.last.selected, hist.outcomes)
       /\ result.pages_converted + result.pages_failed = Len(hist.last.selected)

\* C13: a conversion that raises gives a failed report with the error text
\* and the loop goes on with the next selected page, in selection order;
\* and every run that has started returns its BuildResult, whichever pages
\* fail.
C13_FailureIsolation ==
  /\ []ReportsOfEveryPage
  /\ (pc = "convert" ~> JustReturned)

\* a run has returned in which the first of two selected pages failed and
\* the second was converted
C13_Witness ==
  /\ JustReturned
  /\ Len(result.page_reports) = 2
  /\ Raises(hist.outcomes[1])
  /\ result.page_reports[1].status = "failed"
  /\ result.page_reports[2].status = "success"
  /\ result.pages_failed = 1
\* the reports with a status in statuses
CountOf(reports, statuses) ==
  Cardinality({k \in 1..Len(reports) : reports[k].status \in statuses})

\* C14: the BuildResult holds one report per selected page, in selection
\* order, and no other; a report is failed iff the conversion raised,
\* partial iff it returned with a warning, success iff it returned with
\* none; pages_failed counts the failed reports and pages_converted the
\* others.
C14_RunResult ==
  JustReturned =>
    /\ Len(result.page_reports) = Len(hist.last.selected)
    /\ Len(hist.outcomes) = Len(hist.last.selected)
    /\ \A k \in 1..Len(result.page_reports) :
         LET report == result.page_reports[k]
             outcome == hist.outcomes[k]
         IN /\ report.page_id = hist.last.selected[k]
            /\ report.status = "failed" <=> Raises(outcome)
            /\ report.status = "partial" <=>
                 (~Raises(outcome) /\ WarningsOf(outcome) # <<>>)
            /\ report.status = "success" <=>
                 (~Raises(outcome) /\ WarningsOf(outcome) = <<>>)
    /\ \A id \in DOMAIN PagesOf(hist.last.path) \ Range(hist.last.selected) :
         \A k \in 1..Len(result.page_reports) : result.page_reports[k].page_id # id
    /\ result.pages_failed = CountOf(result.page_reports, {"failed"})
    /\ result.pages_converted = CountOf(result.page_reports, {"success", "partial"})

\* a run of an export of two pages has returned with the one report of the
\* one page it selected, converted with a warning
C14_Witness ==
  /\ JustReturned
  /\ Cardinality(DOMAIN PagesOf(hist.last.path)) = 2
  /\ Len(hist.last.selected) = 1
  /\ Len(result.page_reports) = 1
  /\ result.page_reports[1].status = "partial"
  /\ result.pages_converted = 1
\* _convert_document has returned
DocumentDone == conv.kind = "document" /\ conv.done

\* node m is a heading of level L or less
ClosesSection(m, L) ==
  conv.nodes[m].type = "heading" /\ conv.nodes[m].level <= L

\* the nodes after node k up to, but not including, the next heading of
\* level L or less
SectionOf(k, L) ==
  {j \in (k + 1)..Len(conv.nodes) : \A m \in (k + 1)..j : ~ClosesSection(m, L)}

\* the heading that ends the section of node k, if there is one
NextSection(k, L) ==
  {n \in (k + 1)..Len(conv.nodes) :
     ClosesSection(n, L) /\ \A m \in (k + 1)..(n - 1) : ~ClosesSection(m, L)}

\* C15: a heading of level L reached while the filter is Active whose
\* heading path matches a pattern is recorded as skipped and emits nothing,
\* nothing is emitted for the nodes after it up to the next heading of level
\* L or less, and that heading is rendered unless it matches itself.
C15_SectionExclusion ==
  DocumentDone =>
    \A k \in 1..Len(conv.nodes) :
      LET L == conv.nodes[k].level IN
      ( /\ conv.nodes[k].type = "heading"
        /\ conv.trace[k].before = NoLevel
        /\ should_skip_section(conv.trace[k].path, settings) )
      => /\ \E i \in 1..Len(conv.skipped_sections) :
              conv.skipped_sections[i] = Join(conv.trace[k].path, "/")
         /\ ~conv.trace[k].emitted
         /\ \A j \in SectionOf(k, L) : ~conv.trace[j].emitted
         /\ \A n \in NextSection(k, L) :
              ~should_skip_section(conv.trace[n].path, settings)
              => conv.trace[n].emitted

\* C16: once the filter is in Skipping(level), nothing is emitted for any
\* node, nested headings and what is under them included, until a heading
\* of that level or less is seen.
C16_NothingEmittedWhileSkipping ==
  DocumentDone =>
    \A k \in 1..Len(conv.nodes) :
      conv.trace[k].after # NoLevel =>
        \A j \in SectionOf(k, conv.trace[k].after) :
          ~conv.trace[j].rendered /\ ~conv.trace[j].emitted

\* C17: in a body without a top-level heading every node is handed to
\* _convert_node, the parts are the Markdown of the nodes in order (those
\* that have any), and no section is recorded as skipped, whatever the
\* exclusion patterns are.
C17_NoHeadingsNoSkipping ==
  (DocumentDone /\ \A k \in 1..Len(conv.nodes) : conv.nodes[k].type # "heading") =>
    /\ conv.skipped_sections = <<>>
    /\ \A k \in 1..Len(conv.nodes) : conv.trace[k].rendered
    /\ conv.parts =
         SelectSeq([k \in 1..Len(conv.nodes) |->
                      convert_node(conv.nodes[k], conv, settings).md],
                   LAMBDA md : md # <<>>)

\* a body of three paragraphs was converted under a pattern that matches
\* every heading path
C17_Witness ==
  /\ DocumentDone
  /\ settings.exclude_sections = <<Anything>>
  /\ Len(conv.nodes) = 3
  /\ \A k \in 1..3 : conv.nodes[k].type = "p"
  /\ Len(conv.parts) = 2

\* _convert_link has returned
LinkDone == conv.kind = "link" /\ conv.done

\* the link is a page reference, by id or by title
InternalLink == conv.link.page_id # None \/ conv.link.page_title # <<>>

\* the link was converted under the relative style and its id is in the id
\* index of the export
ResolvedLink ==
  /\ LinkDone
  /\ settings.internal_link_style # "title_only"
  /\ conv.link.page_id \in DOMAIN conv.export.pages_by_id

\* the link text, or the target's title for a link without text, then the
\* destination
LinkTo(target, path) ==
  <<"[">> \o (IF conv.link.text # <<>> THEN conv.link.text
              ELSE conv.export.pages_by_id[target].title)
  \o <<"]", "(">> \o path \o <<")">>

\* C18: for a resolved link, with A the titles of the ancestors of the
\* source page, B the titles from the root to the target and c the length of
\* their common prefix, the destination is len(A) - c ".." segments and then
\* B[c:], the last segment slugified and given ".md", joined with "/".
C18_RelativeLinkPath ==
  ResolvedLink =>
    LET pages_by_id == conv.export.pages_by_id
        to_source == TitlesTo(pages_by_id, conv.current_page)
        A == SubSeq(to_source, 1, Len(to_source) - 1)
        B == TitlesTo(pages_by_id, conv.link.page_id)
        c == CommonPrefix(A, B)
        segments == [i \in 1..(Len(A) - c) |-> DotDot] \o SubSeq(B, c + 1, Len(B))
    IN segments # <<>> =>
         conv.markdown = LinkTo(conv.link.page_id, JoinText(AsFilename(segments), "/"))

\* the link carries no id and the title of a page of the export
TitleOnlyReference ==
  /\ LinkDone
  /\ settings.internal_link_style # "title_only"
  /\ conv.link.page_id = None
  /\ \E id \in DOMAIN conv.export.pages_by_id :
       conv.export.pages_by_id[id].title = conv.link.page_title

\* C19: a link that carries only the title of a page of the export gives
\* what the link with that page's id gives, a relative path to the page,
\* and no warning is added.
C19_ResolvesByTitle ==
  TitleOnlyReference =>
    LET id == CHOOSE id \in DOMAIN conv.export.pages_by_id :
                conv.export.pages_by_id[id].title = conv.link.page_title
        by_id == convert_link([conv.link EXCEPT !.page_id = id],
                              [conv EXCEPT !.warnings = conv.warnings_before],
                              settings)
    IN /\ conv.markdown = by_id.markdown
       /\ conv.warnings = conv.warnings_before

\* sub occurs in text
Contains(text, sub) ==
  \E i \in 0..(Len(text) - Len(sub)) : SubSeq(text, i + 1, i + Len(sub)) = sub

\* a page reference converted under the relative style whose id is absent
\* or not in the id index of the export
UnresolvedLink ==
  /\ LinkDone
  /\ InternalLink
  /\ settings.internal_link_style # "title_only"
  /\ conv.link.page_id \notin DOMAIN conv.export.pages_by_id

\* the title an unresolved link is reported under: its page title, or its
\* text when it carries none
UnresolvedTitle ==
  IF conv.link.page_title # <<>> THEN conv.link.page_title ELSE conv.link.text

\* C20: an unresolved link appends exactly one warning, which contains the
\* unresolved title, and gives a comment naming the title followed by the
\* bracketed text (comment), the plain text (strip) or the bracketed text
\* without a destination (preserve).
C20_UnresolvedLinks ==
  UnresolvedLink =>
    /\ Len(conv.warnings) = Len(conv.warnings_before) + 1
    /\ SubSeq(conv.warnings, 1, Len(conv.warnings_before)) = conv.warnings_before
    /\ Contains(conv.warnings[Len(conv.warnings)], UnresolvedTitle)
    /\ settings.missing_page_links = "comment" =>
         conv.markdown = <<"<!-- Link to missing page: ">> \o UnresolvedTitle
                         \o <<" -->", "[">> \o conv.link.text \o <<"]">>
    /\ settings.missing_page_links = "strip" => conv.markdown = conv.link.text
    /\ settings.missing_page_links = "preserve" =>
         conv.markdown = <<"[">> \o conv.link.text \o <<"]">>

\* a link to the id of no page, titled Gone, was converted in comment mode
\* on a page that had a warning already
C20_Witness ==
  /\ UnresolvedLink
  /\ conv.link.page_id = "9"
  /\ conv.link.page_title = Gone
  /\ conv.link.text = See
  /\ settings.missing_page_links = "comment"
  /\ Len(conv.warnings_before) = 1
  /\ Len(conv.warnings) = 2

\* a page reference converted under the title-only style
TitleOnlyLink ==
  /\ LinkDone
  /\ InternalLink
  /\ settings.internal_link_style = "title_only"

\* C21: under the title-only style every internal link gives the bracketed
\* title (the link text for a link that carries no title) and no warning,
\* and gives the same against an export without pages: the id index has no
\* part in it, whether the target exists or not.
C21_TitleOnlySkipsResolution ==
  TitleOnlyLink =>
    /\ conv.markdown = <<"[">> \o UnresolvedTitle \o <<"]">>
    /\ conv.warnings = conv.warnings_before
    /\ LET nowhere == [conv EXCEPT !.export.pages_by_id = <<>>,
                                   !.warnings = conv.warnings_before]
           r == convert_link(conv.link, nowhere, settings)
       IN conv.markdown = r.markdown /\ conv.warnings = r.warnings

\* a link with the id and the title of a page of the export was converted
\* under the title-only style
C21_Witness ==
  /\ TitleOnlyLink
  /\ conv.link.text = See
  /\ conv.link.page_id = "1"
  /\ conv.link.page_title = Home
  /\ conv.export.pages_by_id["1"].title = Home
  /\ conv.markdown = <<"[">> \o Home \o <<"]">>

\* what the handling mode asks for an unknown macro named jira whose
\* flattened text is body
MacroOutput ==
  CASE settings.unknown_macro_handling = "comment" ->
         <<"<!-- Unknown macro: ", "jira", " -->", "\n", "body">>
    [] settings.unknown_macro_handling = "strip" -> <<>>
    [] OTHER -> <<"body">>

\* the nodes that hold the macro: the macro itself at the top level, a
\* fragment with the macro and a paragraph, a paragraph with a text and the
\* macro; with the Markdown each is to give
MacroHolders ==
  {[node |-> Macro("jira", "body"), md |-> MacroOutput],
   [node |-> Fragment(<<Macro("jira", "body"), Paragraph("text")>>),
    md |-> IF MacroOutput = <<>> THEN <<"text">>
           ELSE MacroOutput \o <<"\n\n", "text">>],
   [node |-> TextBreakElement(<<Text("text"), Macro("jira", "body")>>),
    md |-> <<"text">> \o MacroOutput]}

\* the nodes walked so far that hold the macro and were reached while the
\* filter was Active
MacrosMet ==
  {k \in 1..Len(conv.trace) :
     /\ conv.trace[k].rendered
     /\ \E h \in MacroHolders : h.node = conv.nodes[k]}

\* C22: every unknown macro met while the filter is Active, at the top
\* level, in a fragment or in a paragraph, is recorded in the unknown-macro
\* list under each handling mode, and gives a comment naming it followed by
\* its text (comment), nothing (strip) or its text (preserve_text).
C22_UnknownMacros ==
  (conv.kind = "document" /\ ~conv.raised) =>
    /\ Len(conv.unknown_macros) = Cardinality(MacrosMet)
    /\ \A i \in 1..Len(conv.unknown_macros) : conv.unknown_macros[i] = "jira"
    /\ \A k \in MacrosMet : \A h \in MacroHolders :
         h.node = conv.nodes[k] => conv.trace[k].md = h.md

\* _convert_page has returned the report of the page
PageReported == conv.kind \in {"reported", "recorded", "selected"}

\* the report is partial and one of its warnings has the token in it
WarnedOf(token) ==
  /\ conv.report.status = "partial"
  /\ \E i \in 1..Len(conv.report.warnings) :
       Contains(conv.report.warnings[i], <<token>>)

\* a paragraph with a link to no page was reached while the filter was
\* Active
DeadLinkMet ==
  \E k \in 1..Len(conv.walked.trace) :
    /\ conv.walked.trace[k].rendered
    /\ conv.walked.nodes[k].type = "p"
    /\ \E i \in 1..Len(conv.walked.nodes[k].children) :
         conv.walked.nodes[k].children[i].type = "link"

\* C23: an unresolved link, an unknown macro and a failure to parse or walk
\* the body each put a warning on the report of the page, which is then
\* partial, and none of them makes the page fail or stops the run.
C23_NodeRenderWarnings ==
  PageReported =>
    /\ conv.report.status # "failed"
    /\ DeadLinkMet => WarnedOf("Link target not found: ")
    /\ conv.walked.raised => WarnedOf("Parse error: ")
    /\ conv.walked.unknown_macros # <<>> => WarnedOf("jira")

\* convert has returned the result of the page
PageConverted == conv.kind \in {"result", "reported", "recorded", "selected"}

\* the text ends with tail
EndsWith(text, tail) ==
  /\ Len(tail) <= Len(text)
  /\ SubSeq(text, Len(text) - Len(tail) + 1, Len(text)) = tail

\* C24: when parsing or walking the body raises, convert returns a result
\* with a parse-error warning whose Markdown is the raw body behind a
\* comment marker; the page is reported partial, not failed, its record is
\* written to the cache, and the next run of the unchanged export does not
\* select it.
C24_MalformedBodyFallback ==
  (PageConverted /\ conv.walked.raised) =>
    LET page == conv.walked.export.pages_by_id["1"] IN
    /\ conv.result.warnings # <<>>
    /\ conv.result.warnings[Len(conv.result.warnings)] = <<"Parse error: ", "e">>
    /\ EndsWith(conv.result.markdown,
                <<"<!-- Parse error: ", "e", " -->", "\n\n", page.body_content, "\n">>)
    /\ PageReported =>
         /\ conv.report.status = "partial"
         /\ conv.report.warnings = conv.result.warnings
         /\ conv.report.output_file \in DOMAIN files
    /\ conv.kind \in {"recorded", "selected"} =>
         /\ HasRecord(state, ExportA, "1")
         /\ RecordOf(state, ExportA, "1").content_hash = content_hash(page)
         /\ stateFile = Json(save_data(state))
    /\ conv.kind = "selected" => conv.selected = <<>>

\* the walk of a body raised after a link had put a warning on the page,
\* and the next run has selected nothing
C24_Witness ==
  /\ conv.kind = "selected"
  /\ conv.walked.raised
  /\ Len(conv.walked.nodes) = 2
  /\ Len(conv.result.warnings) = 2
  /\ conv.report.status = "partial"
  /\ conv.selected = <<>>

AllPages ==
  UNION {{PagesOf(path)[id] : id \in DOMAIN PagesOf(path)} : path \in ExportPaths}

\* C26: the content hash of a page is the digest of its body alone: pages
\* with the same body have the same hash whatever their ids, titles, parents
\* and positions, pages with different bodies have different hashes, and
\* the hash a run has recorded for a page is the hash the page has now.
C26_ContentHashOfBodyOnly ==
  /\ LET pages == AllPages IN
     \A p, q \in pages :
       /\ content_hash(p) = Sha256(p.body_content)
       /\ p.body_content = q.body_content <=> content_hash(p) = content_hash(q)
  /\ JustReturned =>
       \A id \in hist.last.written :
         RecordOf(state, hist.last.path, id).content_hash
           = content_hash(PagesOf(hist.last.path)[id])

\* a run has recorded pages while two pages with different ids and titles
\* had the same body and a third page had another body
C26_Witness ==
  /\ JustReturned
  /\ hist.last.written # {}
  /\ \E p, q, r \in AllPages :
       /\ p.id # q.id
       /\ p.title # q.title
       /\ p.body_content = q.body_content
       /\ r.body_content # p.body_content

RECURSIVE AncestorsTo(_, _)
\* a page and its ancestors, the root first
AncestorsTo(by_id, id) ==
  IF by_id[id].parent = None THEN <<id>>
  ELSE AncestorsTo(by_id, by_id[id].parent) \o <<id>>

\* the place of an id in a list that holds it
IndexIn(ids, id) == CHOOSE k \in 1..Len(ids) : ids[k] = id

\* of two pages with the same parent, or two roots, a comes first: by
\* position, and as listed when the positions are equal
SiblingBefore(export, a, b) ==
  LET by_id == export.pages_by_id
      listed == IF by_id[a].parent = None THEN export.root_pages
                ELSE export.children[by_id[a].parent]
  IN \/ by_id[a].position < by_id[b].position
     \/ /\ by_id[a].position = by_id[b].position
        /\ IndexIn(listed, a) < IndexIn(listed, b)

\* a comes before b in the depth-first pre-order of the tree: a is an
\* ancestor of b, or where their ancestries part, a's side comes first
PreOrderBefore(export, a, b) ==
  LET to_a == AncestorsTo(export.pages_by_id, a)
      to_b == AncestorsTo(export.pages_by_id, b)
      n == CommonPrefix(to_a, to_b)
  IN IF n = Len(to_a) THEN Len(to_b) > n
     ELSE IF n = Len(to_b) THEN FALSE
     ELSE SiblingBefore(export, to_a[n + 1], to_b[n + 1])

\* a list of page ids of the export in traversal order, none twice
InTraversalOrder(export, ids) ==
  /\ Range(ids) \subseteq DOMAIN export.pages_by_id
  /\ \A i, j \in 1..Len(ids) : i < j => PreOrderBefore(export, ids[i], ids[j])

\* the parents of four pages: a chain with a second child of the root, two
\* roots with a child each, a root with three children, and a child listed
\* before its parent
TreeShapes ==
  { <<None, "1", "2", "1">>, <<None, None, "1", "2">>,
    <<None, "1", "1", "1">>, <<"3", None, None, "3">> }

\* page lists of these shapes with every choice of positions 0 and 1
TreeSources ==
  { [k \in 1..4 |-> PageData(<<"1", "2", "3", "4">>[k], LinkTitles[k],
                             parents[k], positions[k])] :
      parents \in TreeShapes, positions \in [1..4 -> {0, 1}] }

\* walk_pages lists every page of a tree once, in pre-order by position
WalksInTraversalOrder ==
  \A pages \in TreeSources :
    LET export == parse(ExportA, pages) IN
    /\ InTraversalOrder(export, walk_pages(export))
    /\ Range(walk_pages(export)) = DOMAIN export.pages_by_id

\* C27: the selected pages are in export traversal order (depth-first
\* pre-order, siblings and roots by position), none twice, whether the
\* fingerprint differs or the pages are tested one by one, and the pages
\* are converted in that order.
C27_TraversalOrder ==
  /\ WalksInTraversalOrder
  /\ pc = "convert" =>
       /\ InTraversalOrder(run.export, run.pages_to_convert)
       /\ \A k \in 1..Len(run.reports) :
            run.reports[k].page_id = run.pages_to_convert[k]
  /\ JustReturned =>
       [k \in 1..Len(result.page_reports) |-> result.page_reports[k].page_id]
         = hist.last.selected

\* an unforced run with an unchanged fingerprint has selected two roots one
\* by one, the root listed second first, and has converted both
C27_Witness ==
  /\ pc = "convert"
  /\ ~run.force
  /\ state.settings_hash = hash_settings(settings)
  /\ run.pages_to_convert = <<"2", "1">>
  /\ run.export.root_pages = <<"1", "2">>
  /\ Len(run.reports) = 2
  /\ run.reports[1].page_id = "2"

\* clean() has just returned
JustCleaned ==
  /\ pc = "idle"
  /\ hist.last.how = "cleaned"
  /\ hist.last.same_builder
  /\ hist.last.changed = {}

\* C28: after clean() the state in memory is the empty state, there is no
\* state file, no file but '.gitkeep' is left under the exports directory
\* and the count returned is the number of files removed; the next run of an
\* export on that builder selects every page.
C28_Reset ==
  /\ JustCleaned =>
       /\ state = EmptyState
       /\ stateFile = Missing
       /\ \A q \in DOMAIN files : q[1] = settings.exports_dir => Name(q) = GitKeep
       /\ result.removed
            = Cardinality(DOMAIN hist.start.files \ DOMAIN files)
              + IF hist.start.stateFile = Missing THEN 0 ELSE 1
  /\ (JustStarted /\ hist.prev.how = "cleaned" /\ hist.prev.same_builder) =>
       /\ run.pages_to_convert = walk_pages(run.export)
       /\ Range(run.pages_to_convert) = DOMAIN run.export.pages_by_id

\* an unforced run of an export with two pages starts on a builder whose
\* clean() has removed output files, the notes and the state file and has
\* kept '.gitkeep'
C28_Witness ==
  /\ JustStarted
  /\ ~run.force
  /\ hist.prev.how = "cleaned"
  /\ hist.prev.same_builder
  /\ hist.prev.removed > 3
  /\ Len(run.pages_to_convert) = 2
  /\ <<"exports", GitKeep>> \in DOMAIN files

\* every export entry and every page record of st is in st2
RecordsKept(st, st2) ==
  \A name \in DOMAIN st.exports :
    /\ name \in DOMAIN st2.exports
    /\ DOMAIN st.exports[name].pages \subseteq DOMAIN st2.exports[name].pages

PathBefore(k) == IF k = 1 THEN <<>> ELSE conv.trace[k - 1].path

\* node k of the body is a heading and the loop has processed it
HeadingDone(k) ==
  /\ conv.kind = "document"
  /\ k \in 1..Len(conv.trace)
  /\ conv.nodes[k].type = "heading"

\* C30: a heading of level L cuts the heading path to its first L-1 entries
\* at most and appends its text, so the path then has at most L entries and
\* ends with this heading; this is done for every heading of the body, also
\* inside a skipped section, other nodes leave the path alone, and the path
\* tested against the patterns is the '/'-join of the updated path.
C30_HeadingPath ==
  conv.kind = "document" =>
    \A k \in 1..Len(conv.trace) :
      LET node == conv.nodes[k]
          before == PathBefore(k)
          path == conv.trace[k].path
          kept == IF Len(before) < node.level - 1 THEN Len(before)
                  ELSE node.level - 1
      IN IF node.type = "heading"
         THEN /\ path = SubSeq(before, 1, kept) \o <<node.text>>
              /\ Len(path) <= node.level
              /\ path[Len(path)] = node.text
              /\ conv.trace[k].matched
                   <=> \E i \in 1..Len(settings.exclude_sections) :
                         fnmatch(Join(path, "/"), settings.exclude_sections[i])
         ELSE /\ path = before
              /\ ~conv.trace[k].matched

\* inside a skipped section, a heading below the section's level has cut
\* entries off the path and put itself at its end
C30_Witness ==
  \E k \in 1..MaxNodes :
    /\ HeadingDone(k)
    /\ conv.trace[k].before # NoLevel
    /\ conv.nodes[k].level > conv.trace[k].before
    /\ ~conv.trace[k].matched
    /\ Len(PathBefore(k)) >= conv.nodes[k].level
    /\ Len(conv.trace[k].path) = conv.nodes[k].level
    /\ conv.trace[k].path # PathBefore(k)

\* the destination of an emitted link [text](destination)
Destination(markdown) ==
  LET open == CHOOSE i \in 1..Len(markdown) :
                /\ markdown[i] = "("
                /\ \A j \in 1..(i - 1) : markdown[j] # "("
  IN SubSeq(markdown, open + 1, Len(markdown) - 1)

RECURSIVE ResolveFrom(_, _)
\* the path that the segments of a relative path lead to from a directory;
\* a ".." with no directory left to leave stays in the path
ResolveFrom(dir, segments) ==
  IF segments = <<>> THEN dir
  ELSE IF Head(segments) = DotDot /\ dir # <<>> /\ dir[Len(dir)] # DotDot
       THEN ResolveFrom(SubSeq(dir, 1, Len(dir) - 1), Tail(segments))
       ELSE ResolveFrom(Append(dir, Head(segments)), Tail(segments))

\* the output file of a page, from the directory of the export's output on
OutputBelow(dir, id) ==
  LET path == get_output_path(settings, conv.export.pages_by_id[id], conv.export)
  IN SubSeq(path, Len(dir) + 1, Len(path))

\* C31: for a resolved link, the emitted relative path, followed from the
\* directory of the source page's output file, leads to the file the builder
\* writes for the target page.
C31_LinkMeetsOutput ==
  ResolvedLink =>
    LET source_file == get_output_path(settings,
                         conv.export.pages_by_id[conv.current_page], conv.export)
        dir == SubSeq(source_file, 1, Len(source_file) - 1)
    IN ResolveFrom(<<>>, Split(Destination(conv.markdown), "/"))
         = OutputBelow(dir, conv.link.page_id)

\* the output files named by the reports of the run that has returned
OutputsOf(reports) == {reports[k].output_file : k \in 1..Len(reports)}

\* C32: distinct pages of an export are written to distinct output paths,
\* so after a run without a failure there are as many output files of the
\* run as pages it converted.
C32_DistinctOutputs ==
  /\ JustStarted =>
       \A a, b \in DOMAIN run.export.pages_by_id :
         a # b => get_output_path(settings, run.export.pages_by_id[a], run.export)
                  # get_output_path(settings, run.export.pages_by_id[b], run.export)
  /\ (JustReturned /\ result.pages_failed = 0) =>
       Cardinality(OutputsOf(result.page_reports) \cap DOMAIN files)
         = result.pages_converted

\* the file is the whole output of a conversion of the page under the
\* fingerprinted settings of s, as far as the text shows them
WrittenUnder(file, page, s) ==
  /\ "markdown_of" \in DOMAIN file
  /\ file.markdown_of.body = page.body_content
  /\ \A n \in FingerprintedSettings \cap DOMAIN file.markdown_of.settings :
       file.markdown_of.settings[n] = s[n]

\* C33: whenever a run skips a page, the output file the page's record names
\* exists and was written by a conversion of the page's current content
\* under the current settings fingerprint.
C33_SkipValidity ==
  JustStarted =>
    \A id \in DOMAIN run.export.pages_by_id \ Range(run.pages_to_convert) :
      /\ HasRecord(state, run.export.path, id)
      /\ LET output_path == RecordOf(state, run.export.path, id).output_path IN
         /\ output_path \in DOMAIN files
         /\ WrittenUnder(files[output_path], run.export.pages_by_id[id], settings)

\* C34: for every run, pages_converted + pages_failed + pages_skipped is
\* the number of pages of the export, and pages_skipped is not negative and
\* is the number of pages the traversal reaches that were not selected, also
\* when parent references form a cycle or point at the page itself.
C34_CountConsistency ==
  JustReturned =>
    LET export == parse(hist.last.path, source[hist.last.path]) IN
    /\ result.pages_converted + result.pages_failed + result.pages_skipped
         = Cardinality(DOMAIN export.pages_by_id)
    /\ result.pages_skipped >= 0
    /\ result.pages_skipped
         = Cardinality(Range(walk_pages(export)) \ Range(hist.last.selected))

\* C35: when two builders were constructed and then run one after the
\* other, the state file after the second run holds every record the first
\* run wrote.
C35_NoLostUpdate ==
  (/\ JustReturned
   /\ hist.prev.how = "completed"
   /\ "builder" \in hist.prev.changed) =>
    \A id \in hist.prev.written :
      HasRecord(load_state(stateFile), hist.prev.path, id)

\* the page records st holds for the export at path
RecordsFor(st, path) ==
  IF Name(path) \in DOMAIN st.exports THEN st.exports[Name(path)].pages ELSE <<>>

\* C36: a run of one export changes no page record of an export at another
\* path, also when the two have the same file name in different directories
\* and pages with the same ids.
C36_ExportIsolation ==
  [][pc = "convert" =>
       \A path \in AllExportPaths \ {run.export.path} :
         RecordsFor(state', path) = RecordsFor(state, path)]_vars

\* the page has a record in one of two states only, or two different ones
RecordChanged(st, st2, path, id) ==
  \/ id \notin DOMAIN RecordsFor(st, path)
  \/ id \notin DOMAIN RecordsFor(st2, path)
  \/ RecordsFor(st, path)[id] # RecordsFor(st2, path)[id]

\* C37: the update of a run changes the record of a page only if the page
\* is of the run's export, was selected and did not fail, so the records of
\* skipped and of failed pages stay as they were; the update stores the
\* current settings fingerprint, and the state file of every completed run,
\* also of one in which every page failed, holds it.
C37_RunFrame ==
  /\ [][(pc = "convert" /\ pc' = "write") =>
          /\ state'.settings_hash = hash_settings(settings)
          /\ \A path \in ExportPaths :
               \A id \in DOMAIN RecordsFor(state, path)
                         \cup DOMAIN RecordsFor(state', path) :
                 RecordChanged(state, state', path, id) =>
                   /\ path = run.export.path
                   /\ id \in Range(run.pages_to_convert)
                   /\ \E k \in 1..Len(run.reports) :
                        /\ run.reports[k].page_id = id
                        /\ run.reports[k].status # "failed"]_vars
  /\ [](JustReturned =>
          load_state(stateFile).settings_hash = hash_settings(settings))

\* a run has returned in which every selected page failed, a page with a
\* record was skipped, and the fingerprint of the settings is stored
C37_Witness ==
  /\ JustReturned
  /\ hist.last.selected # <<>>
  /\ hist.last.failed = Range(hist.last.selected)
  /\ hist.last.failed \cap DOMAIN hist.last.records # {}
  /\ DOMAIN hist.last.records \ Range(hist.last.selected) # {}
  /\ state.settings_hash = hash_settings(settings)
====
